---- MODULE Spec2Model ----
(***************************************************************************)
(* SelfAssessment: the backend's result controller (calculate, lock,       *)
(* update, generateValidationCode), validateConfig, the SpeedTest model    *)
(* and the journal controller, and the frontend's journal structure and    *)
(* journal log services, as state machines.                                *)
(*                                                                         *)
(* The specifications of this module:                                      *)
(*   SpecLock      lock(pin) and update(pin) requests interleaving on the  *)
(*                 user store (result.controller.js lock / update);        *)
(*   SpecCalc      calculate(config, journal) applied to bounded inputs;   *)
(*   SpecValidate  validateConfig(config) applied to bounded documents;    *)
(*   SpecStruct    createJournalStructure for a new and a returning user;  *)
(*   SpecSpeed     SpeedTest.calculateResult on bounded logs;              *)
(*   SpecGen       generateValidationCode on bounded schemas;              *)
(*   SpecWire      the journal log prepared for saving and extracted;      *)
(*   SpecJournal   saveLog and saveStructure interleaving on db.Journal.   *)
(* The variables of the other specifications stay at their idle values.    *)
(***************************************************************************)
EXTENDS Integers, Sequences, FiniteSets, TLC

VARIABLES
    users,        \* db.User: pin -> user document (journal, result)
    courses,      \* db.Course: course name -> course document
    reqs,         \* the lock / update requests in flight, by slot
    calcConfig,   \* calculate: the course config handed in
    calcJournal,  \* calculate: the journal handed in
    calcResult,   \* calculate: what it returned
    valConfig,    \* validateConfig: the document handed in
    valResult,    \* validateConfig: what it returned
    configFile,       \* createJournalStructure: the config handed in
    journalStrucMin,  \* createJournalStructure: the minimal structure handed in
    builder,          \* createJournalStructure: its locals and position
    journalStructure, \* createJournalStructure: what it returned
    history,          \* the calls made so far and what they returned
    speedOptions,     \* SpeedTest: config['options'] of the instance
    speedLog,         \* SpeedTest: the log handed to calculateResult
    speedResult,      \* SpeedTest: what calculateResult returned
    stringLogResult,  \* SpeedTest: what calculateResult returned for a log of texts
    genSchema,        \* generateValidationCode: the schema handed in
    genCode,          \* generateValidationCode: its local 'code'
    genPc,            \* generateValidationCode: the loop it is in
    journalLog,       \* LocalStorageService: the journal log in its mapping form
    protoObj,         \* prepareJournalLogForSaving: what it returned
    extractedLog,     \* extractSavedJournalLog: what it returned
    journals,         \* db.Journal: the journal documents, in natural order
    saves             \* saveJournal: pin -> where its two requests are

lockVars == <<users, courses, reqs>>
calcVars == <<calcConfig, calcJournal, calcResult>>
valVars == <<valConfig, valResult>>
structVars == <<configFile, journalStrucMin, builder, journalStructure, history>>
speedVars == <<speedOptions, speedLog, speedResult, stringLogResult>>
genVars == <<genSchema, genCode, genPc>>
wireVars == <<journalLog, protoObj, extractedLog>>
journalVars == <<journals, saves>>

vars == <<lockVars, calcVars, valVars, structVars, speedVars, genVars, wireVars, journalVars>>

(***************************************************************************)
(* Bounds of the model.                                                    *)
(***************************************************************************)
MaxRequests == 3     \* request slots of SpecLock
MaxSets == 2         \* sets of a journal structure, and of a journal log
MaxSetTests == 2     \* test ids listed in one structure set
MaxMaps == 1         \* {key, val} pairs in one set of the journal log
MaxEntities == 3     \* tests + groups + sets + infopages of a validated document
MaxRefs == 1         \* ids a group, set or infopage of such a document refers to

Pins == {1, 2}
TestIds == {1, 2}

(***************************************************************************)
(* Sequence helpers.                                                       *)
(***************************************************************************)
SeqsUpTo(S, n) == UNION {[1..k -> S] : k \in 0..n}

Range(s) == {s[i] : i \in DOMAIN s}

\* Array.prototype.indexOf(x) > -1
Includes(s, x) == \E i \in DOMAIN s : s[i] = x

(***************************************************************************)
(* calculate(config, journal): result.controller.js lines 36-140.          *)
(*                                                                         *)
(* config.tests is a sequence of test configs [id, category, evaluated,    *)
(* options]; an option is [hasCorrect, correct] ('correct' in option, and  *)
(* its value). journal.structure.sets[i].tests lists test ids;             *)
(* journal.log.sets[i].maps lists {key, val} pairs.                        *)
(***************************************************************************)

\* The inner "get the test config" loop: the index of the first test of
\* config.tests with this id, 0 when the loop leaves testConfig null.
FindTestConfig(tests, id) ==
    IF \E i \in DOMAIN tests : tests[i].id = id
    THEN CHOOSE i \in DOMAIN tests :
            /\ tests[i].id = id
            /\ \A j \in 1..(i - 1) : tests[j].id # id
    ELSE 0

\* The inner loop over set.maps with its break: the first pair of one log set
\* with this key, 0 when there is none.
FirstMapWithKey(maps, id) ==
    IF \E i \in DOMAIN maps : maps[i].key = id
    THEN CHOOSE i \in DOMAIN maps :
            /\ maps[i].key = id
            /\ \A j \in 1..(i - 1) : maps[j].key # id
    ELSE 0

\* The "get the test log" loops left at the first log set that has the key.
RECURSIVE FindTestLogFirstSet(_, _, _, _)
FindTestLogFirstSet(logSets, id, s, found) ==
    IF s > Len(logSets) THEN found
    ELSE LET m == FirstMapWithKey(logSets[s].maps, id) IN
         IF m = 0 THEN FindTestLogFirstSet(logSets, id, s + 1, found)
         ELSE [isNull |-> FALSE, val |-> logSets[s].maps[m].val]

\* The "get the test log" loops: the break leaves only the inner loop, so every
\* log set is visited and a later set's entry overwrites an earlier one's.
RECURSIVE FindTestLog(_, _, _, _)
FindTestLog(logSets, id, s, found) ==
    IF s > Len(logSets) THEN found
    ELSE LET m == FirstMapWithKey(logSets[s].maps, id) IN
         FindTestLog(logSets, id, s + 1,
                     IF m = 0 THEN found
                     ELSE [isNull |-> FALSE, val |-> logSets[s].maps[m].val])

NullLog == [isNull |-> TRUE, val |-> <<>>]

\* testsData[key] = value on a JavaScript object, kept as the list of its
\* properties in creation order: an existing key keeps its place.
ObjectPut(data, key, value) ==
    IF \E i \in DOMAIN data : data[i].key = key
    THEN [i \in DOMAIN data |->
            IF data[i].key = key THEN [key |-> key, value |-> value] ELSE data[i]]
    ELSE Append(data, [key |-> key, value |-> value])

\* The gathering loops with a test without log skipped instead of aborting.
RECURSIVE GatherTestsDataSkipNoLog(_, _, _, _, _)
GatherTestsDataSkipNoLog(config, journal, s, t, data) ==
    IF s > Len(journal.structure.sets) THEN [aborted |-> FALSE, data |-> data]
    ELSE LET tests == journal.structure.sets[s].tests IN
         IF t > Len(tests) THEN GatherTestsDataSkipNoLog(config, journal, s + 1, 1, data)
         ELSE LET singleTestID == tests[t]
                  c == FindTestConfig(config.tests, singleTestID)
              IN  IF c = 0 THEN [aborted |-> TRUE, data |-> <<>>]
                  ELSE IF config.tests[c].evaluated = FALSE
                  THEN GatherTestsDataSkipNoLog(config, journal, s, t + 1, data)
                  ELSE LET testLog == FindTestLog(journal.log.sets, singleTestID, 1, NullLog)
                       IN  IF testLog.isNull
                           THEN GatherTestsDataSkipNoLog(config, journal, s, t + 1, data)
                           ELSE GatherTestsDataSkipNoLog(config, journal, s, t + 1,
                                    ObjectPut(data, singleTestID,
                                        [config |-> config.tests[c], log |-> testLog.val]))

\* The gathering loops with the log looked up before the 'evaluated' check.
RECURSIVE GatherTestsDataLogFirst(_, _, _, _, _)
GatherTestsDataLogFirst(config, journal, s, t, data) ==
    IF s > Len(journal.structure.sets) THEN [aborted |-> FALSE, data |-> data]
    ELSE LET tests == journal.structure.sets[s].tests IN
         IF t > Len(tests) THEN GatherTestsDataLogFirst(config, journal, s + 1, 1, data)
         ELSE LET singleTestID == tests[t]
                  c == FindTestConfig(config.tests, singleTestID)
                  testLog == FindTestLog(journal.log.sets, singleTestID, 1, NullLog)
              IN  IF c = 0 THEN [aborted |-> TRUE, data |-> <<>>]
                  ELSE IF testLog.isNull THEN [aborted |-> TRUE, data |-> <<>>]
                  ELSE IF config.tests[c].evaluated = FALSE
                  THEN GatherTestsDataLogFirst(config, journal, s, t + 1, data)
                  ELSE GatherTestsDataLogFirst(config, journal, s, t + 1,
                            ObjectPut(data, singleTestID,
                                [config |-> config.tests[c], log |-> testLog.val]))

\* The first pair of loops of calculate (lines 50-99): testsData, or the abort
\* (return null) on a test without config or an evaluated test without log.
RECURSIVE GatherTestsData(_, _, _, _, _)
GatherTestsData(config, journal, s, t, data) ==
    IF s > Len(journal.structure.sets) THEN [aborted |-> FALSE, data |-> data]
    ELSE LET tests == journal.structure.sets[s].tests IN
         IF t > Len(tests) THEN GatherTestsData(config, journal, s + 1, 1, data)
         ELSE LET singleTestID == tests[t]
                  c == FindTestConfig(config.tests, singleTestID)
              IN  IF c = 0 THEN [aborted |-> TRUE, data |-> <<>>]
                  ELSE IF config.tests[c].evaluated = FALSE
                  THEN GatherTestsData(config, journal, s, t + 1, data)
                  ELSE LET testLog == FindTestLog(journal.log.sets, singleTestID, 1, NullLog)
                       IN  IF testLog.isNull THEN [aborted |-> TRUE, data |-> <<>>]
                           ELSE GatherTestsData(config, journal, s, t + 1,
                                    ObjectPut(data, singleTestID,
                                        [config |-> config.tests[c], log |-> testLog.val]))

\* "for (const key in testsData)": the keys are test ids, non-negative integers,
\* and a JavaScript object enumerates integer keys in ascending numeric order,
\* whatever the order in which they were created.
RECURSIVE SortedKeys(_)
SortedKeys(S) ==
    IF S = {} THEN <<>>
    ELSE LET m == CHOOSE x \in S : \A y \in S : x <= y
         IN  <<m>> \o SortedKeys(S \ {m})

\* The keys in the order in which the properties were created.
OwnKeysInCreationOrder(data) == [i \in DOMAIN data |-> data[i].key]

OwnKeys(data) == SortedKeys({data[i].key : i \in DOMAIN data})

ObjectGet(data, key) == (CHOOSE i \in DOMAIN data : data[i].key = key)

\* test['category'] of a test without the attribute.
NoCategory == "(absent)"

\* The categories for which the test model factory has a scoring strategy.
StrategyCategories ==
    {"checkbox", "radio-buttons", "multiple-choice", "multiple-options", "speed"}

\* courseTestModels.Factory.create(category, config): an instance, or null for
\* a category without strategy.
FactoryCreate(category, config) ==
    IF category \in StrategyCategories
    THEN [isNull |-> FALSE, category |-> category, config |-> config]
    ELSE [isNull |-> TRUE, category |-> category, config |-> config]

\* maxScore as the number of options.
MaxScoreAllOptions(instance) == Len(instance.config.options)

\* get maxScore(): the number of options with a 'correct' attribute.
MaxScore(instance) ==
    Cardinality({i \in DOMAIN instance.config.options :
                    instance.config.options[i].hasCorrect})

\* The choice-based strategies (checkbox, radio buttons, multiple choice): log
\* is one boolean per option; a selected option counts as correct when its
\* 'correct' is true and as wrong otherwise.
RECURSIVE ChoiceCalculateResult(_, _, _, _)
ChoiceCalculateResult(options, log, i, result) ==
    IF i > Len(log) \/ i > Len(options) THEN result
    ELSE ChoiceCalculateResult(options, log, i + 1,
            IF log[i] = TRUE /\ options[i].hasCorrect /\ options[i].correct = TRUE
            THEN [score |-> result.score + 1,
                  correct |-> Append(result.correct, i - 1),
                  wrong |-> result.wrong]
            ELSE IF log[i] = TRUE
            THEN [result EXCEPT !.wrong = Append(result.wrong, i - 1)]
            ELSE result)

\* The multiple-options strategy: log[i] is the column chosen for row i.
RECURSIVE MultipleOptionsCalculateResult(_, _, _, _)
MultipleOptionsCalculateResult(options, log, i, result) ==
    IF i > Len(log) \/ i > Len(options) THEN result
    ELSE MultipleOptionsCalculateResult(options, log, i + 1,
            IF options[i].hasCorrect /\ options[i].correct = log[i]
            THEN [score |-> result.score + 1,
                  correct |-> Append(result.correct, i - 1),
                  wrong |-> result.wrong]
            ELSE [result EXCEPT !.wrong = Append(result.wrong, i - 1)])

EmptyResult == [score |-> 0, correct |-> <<>>, wrong |-> <<>>]

(***************************************************************************)
(* SpeedTest (testmodels/abstract.js).  A string is the sequence of its    *)
(* characters, an offset counts from 0.  A log entry is what the journal   *)
(* holds for an option: anything, or an array of a start and an end that   *)
(* may or may not be numbers.  'correct' holds no regular expression       *)
(* character and is not empty.                                             *)
(***************************************************************************)
Min(a, b) == IF a < b THEN a ELSE b
Max(a, b) == IF a > b THEN a ELSE b

\* String.prototype.substring(start, end): both ends clamped to the string,
\* and swapped when start > end.
Substring(str, start, end) ==
    LET a == Min(Max(start, 0), Len(str))
        b == Min(Max(end, 0), Len(str))
    IN  SubSeq(str, Min(a, b) + 1, Max(a, b))

\* String.prototype.slice(from), 0 <= from
Slice(str, from) == SubSeq(str, Min(from, Len(str)) + 1, Len(str))

\* String.prototype.search(pattern): the offset of the first match, or -1.
Search(str, pattern) ==
    LET matches == {i \in 0..(Len(str) - Len(pattern)) :
                        SubSeq(str, i + 1, i + Len(pattern)) = pattern}
    IN  IF matches = {} THEN -1
        ELSE CHOOSE i \in matches : \A j \in matches : i <= j

\* String.prototype.includes(pattern)
StringIncludes(str, pattern) == Search(str, pattern) # -1

\* lines 254-268: the occurrences of 'correct', each found in what is left of
\* the text after the one before and recorded with the offsets it has there.
RECURSIVE Occurences(_, _)
Occurences(searchString, correctOption) ==
    LET index == Search(searchString, correctOption) IN
    IF index = -1 THEN <<>>
    ELSE <<[start |-> index, end |-> index + Len(correctOption)]>>
         \o Occurences(Slice(searchString, index + Len(correctOption)), correctOption)

\* lines 273-279: the number of the last occurrence that the selection
\* covers, or -1.
SelectedOccurence(occurences, userSelectionStart, userSelectionEnd) ==
    LET covered == {i \in DOMAIN occurences :
                        /\ userSelectionStart <= occurences[i].start
                        /\ userSelectionEnd >= occurences[i].end}
    IN  IF covered = {} THEN -1
        ELSE (CHOOSE i \in covered : \A j \in covered : j <= i) - 1

\* Lines 222-250 with only the test for an array.
SkipsEntryNotArrayOnly(option, entry) == ~entry.isArray

\* lines 222-250: the entries that 'continue' leaves unscored: not an array,
\* an option whose index parseInt cannot read, a start or end that is not a
\* number, a start or end of -1.
SkipsEntry(option, entry) ==
    \/ ~entry.isArray
    \/ ~option.index.parsable
    \/ ~entry.startIsNumber \/ ~entry.endIsNumber
    \/ entry.start = -1 \/ entry.end = -1

\* lines 281-282: the condition under which the point is awarded.
Awards(option, entry) ==
    /\ StringIncludes(Substring(option.text, entry.start, entry.end), option.correct)
    /\ SelectedOccurence(Occurences(option.text, option.correct), entry.start, entry.end)
           = option.index.value

\* The loop over the log without the result.score++ of line 283.
RECURSIVE SpeedCalculateResultNoScore(_, _, _, _)
SpeedCalculateResultNoScore(options, log, i, result) ==
    IF ~(i < Len(log)) THEN result
    ELSE SpeedCalculateResultNoScore(options, log, i + 1,
            IF SkipsEntry(options[i + 1], log[i + 1]) THEN result
            ELSE IF Awards(options[i + 1], log[i + 1])
            THEN [result EXCEPT !.correct = Append(@, i)]
            ELSE [result EXCEPT !.wrong = Append(@, i)])

\* lines 218-291: the loop over the log.
RECURSIVE SpeedCalculateResult(_, _, _, _)
SpeedCalculateResult(options, log, i, result) ==
    IF ~(i < Len(log)) THEN result
    ELSE SpeedCalculateResult(options, log, i + 1,
            IF SkipsEntry(options[i + 1], log[i + 1]) THEN result
            ELSE IF Awards(options[i + 1], log[i + 1])
            THEN [score |-> result.score + 1,
                  correct |-> Append(result.correct, i),
                  wrong |-> result.wrong]
            ELSE [result EXCEPT !.wrong = Append(@, i)])

\* calculateResult of the SpeedTest that reads a log of selected texts
\* (part_001 lines 91-122): an entry that is no string is left unscored, one
\* that holds 'correct' is awarded, any other that is not empty is wrong.
RECURSIVE StringLogCalculateResult(_, _, _, _)
StringLogCalculateResult(options, log, i, result) ==
    IF ~(i < Len(log)) THEN result
    ELSE StringLogCalculateResult(options, log, i + 1,
            IF ~log[i + 1].isString THEN result
            ELSE IF StringIncludes(log[i + 1].text, options[i + 1].correct)
            THEN [score |-> result.score + 1,
                  correct |-> Append(result.correct, i),
                  wrong |-> result.wrong]
            ELSE IF Len(log[i + 1].text) > 0
            THEN [result EXCEPT !.wrong = Append(@, i)]
            ELSE result)

\* A log entry that is not an array, such as the 'false' of an option left
\* alone.
NotAnArray ==
    [isArray |-> FALSE, startIsNumber |-> FALSE, endIsNumber |-> FALSE,
     start |-> 0, end |-> 0]

\* The log of a test answered with one boolean per option, as calculateResult
\* of a speed test reads it.
SpeedEntries(log) ==
    [i \in DOMAIN log |-> IF log[i] \in BOOLEAN THEN NotAnArray ELSE log[i]]

\* testInstance.calculateResult(log)
CalculateResult(instance, log) ==
    CASE instance.category = "multiple-options" ->
            MultipleOptionsCalculateResult(instance.config.options, log, 1, EmptyResult)
      [] instance.category = "speed" ->
            SpeedCalculateResult(instance.config.options, SpeedEntries(log), 0, EmptyResult)
      [] instance.category \in {"checkbox", "radio-buttons", "multiple-choice"} ->
            ChoiceCalculateResult(instance.config.options, log, 1, EmptyResult)

\* The scoring loop leaving at the first test without instance (break for
\* continue).
RECURSIVE ScoreTestsBreak(_, _, _, _)
ScoreTestsBreak(data, keys, k, tests) ==
    IF k > Len(keys) THEN tests
    ELSE LET test == data[ObjectGet(data, keys[k])].value
             testInstance == FactoryCreate(test.config.category, test.config)
         IN  IF testInstance.isNull
             THEN tests
             ELSE LET testResult == CalculateResult(testInstance, test.log)
                  IN  ScoreTestsBreak(data, keys, k + 1,
                         Append(tests, [id |-> keys[k],
                                        score |-> testResult.score,
                                        maxScore |-> MaxScore(testInstance),
                                        correctOptions |-> testResult.correct,
                                        wrongOptions |-> testResult.wrong]))

\* The second loop of calculate (lines 111-137) over the keys of testsData.
RECURSIVE ScoreTests(_, _, _, _)
ScoreTests(data, keys, k, tests) ==
    IF k > Len(keys) THEN tests
    ELSE LET test == data[ObjectGet(data, keys[k])].value
             testInstance == FactoryCreate(test.config.category, test.config)
         IN  IF testInstance.isNull
             THEN ScoreTests(data, keys, k + 1, tests)
             ELSE LET testResult == CalculateResult(testInstance, test.log)
                  IN  ScoreTests(data, keys, k + 1,
                         Append(tests, [id |-> keys[k],
                                        score |-> testResult.score,
                                        maxScore |-> MaxScore(testInstance),
                                        correctOptions |-> testResult.correct,
                                        wrongOptions |-> testResult.wrong]))

\* calculate(config, journal): [isNull |-> TRUE] for null, else the tests array.
Calculate(config, journal) ==
    LET gathered == GatherTestsData(config, journal, 1, 1, <<>>) IN
    IF gathered.aborted THEN [isNull |-> TRUE, tests |-> <<>>]
    ELSE [isNull |-> FALSE,
          tests |-> ScoreTests(gathered.data, OwnKeys(gathered.data), 1, <<>>)]

(***************************************************************************)
(* The user store and the lock / update controllers                        *)
(* (result.controller.js lines 255-429).                                   *)
(*                                                                         *)
(* A user document is [exists, course, language, journal, tests,           *)
(* validationCode]: journal.structure.course / .language, the journal, and *)
(* result.tests / result.validationCode. validationCode "" stands for an   *)
(* absent (or empty) code: both are falsy in the controllers' checks.      *)
(* The store always answers: the catch branches (HTTP 500) write nothing   *)
(* and are not modelled.                                                   *)
(***************************************************************************)
Reqs == 1..MaxRequests

HTTP_OK == 200
HTTP_NOT_FOUND == 404

RadioTest(id, evaluated) ==
    [id |-> id, category |-> "radio-buttons", evaluated |-> evaluated,
     options |-> <<[hasCorrect |-> TRUE, correct |-> TRUE],
                   [hasCorrect |-> TRUE, correct |-> FALSE]>>]

\* The course config of the course "math", language "en".
MathConfig ==
    [validationSchema |-> "[A-Z][0-9]",
     tests |-> <<RadioTest(1, TRUE), RadioTest(2, TRUE)>>]

EmptyJournal == [structure |-> [sets |-> <<>>], log |-> [sets |-> <<>>]]

\* A journal with both tests answered, and one with a test left unanswered.
JournalAnswered ==
    [structure |-> [sets |-> <<[tests |-> <<2, 1>>]>>],
     log |-> [sets |-> <<[maps |-> <<[key |-> 1, val |-> <<TRUE, FALSE>>],
                                    [key |-> 2, val |-> <<FALSE, TRUE>>]>>]>>]]

JournalUnanswered ==
    [structure |-> [sets |-> <<[tests |-> <<1>>]>>], log |-> [sets |-> <<>>]]

NoUser ==
    [exists |-> FALSE, course |-> "", language |-> "", journal |-> EmptyJournal,
     tests |-> <<>>, validationCode |-> ""]

NewUser(course, language, journal) ==
    [exists |-> TRUE, course |-> course, language |-> language, journal |-> journal,
     tests |-> <<>>, validationCode |-> ""]

\* The user documents a pin can start with: none, or a user who has chosen a
\* course and language and saved a journal; no result computed, no code yet.
InitialUsers ==
    {NoUser,
     NewUser("math", "en", JournalAnswered),
     NewUser("math", "en", JournalUnanswered),
     NewUser("math", "fr", JournalAnswered),
     NewUser("gone", "en", JournalAnswered)}

NoCourse == [exists |-> FALSE, configs |-> <<>>]

CourseNames == {"math", "gone"}

InitialCourses ==
    [name \in CourseNames |->
        IF name = "math"
        THEN [exists |-> TRUE, configs |-> <<[language |-> "en", config |-> MathConfig]>>]
        ELSE NoCourse]

\* What generateValidationCode can return for the schema "[A-Z][0-9]": two of
\* the outcomes of its random draws.
GeneratedCodes(schema) == {"A1", "B2"}

NoBody == [kind |-> "none", code |-> "", tests |-> <<>>]
ErrorBody == [kind |-> "error", code |-> "", tests |-> <<>>]
CodeBody(code) == [kind |-> "code", code |-> code, tests |-> <<>>]
TestsBody(tests) == [kind |-> "tests", code |-> "", tests |-> tests]

IdleReq ==
    [op |-> "none", pin |-> 0, pc |-> "idle", user |-> NoUser,
     pendingCode |-> "", pendingTests |-> <<>>, status |-> 0, body |-> NoBody,
     startedLocked |-> FALSE, prior |-> {}, generated |-> FALSE, wrote |-> FALSE]

\* res.status(status).json(body) and return
Respond(req, status, body) ==
    [req EXCEPT !.pc = "done", !.status = status, !.body = body]

\* ('validationCode' in user.result) && (user.result.validationCode), and
\* update's user.result.validationCode: a non-empty code is stored.
IsLocked(user) == user.validationCode # ""

\* lock's "get the config for the selected language" loop, with its break: the
\* index of the first config of the language, 0 for courseConfig === null.
FirstConfigFor(configs, language) ==
    IF \E i \in DOMAIN configs : configs[i].language = language
    THEN CHOOSE i \in DOMAIN configs :
            /\ configs[i].language = language
            /\ \A j \in 1..(i - 1) : configs[j].language # language
    ELSE 0

\* update's loop has no break: the last config of the language.
LastConfigFor(configs, language) ==
    IF \E i \in DOMAIN configs : configs[i].language = language
    THEN CHOOSE i \in DOMAIN configs :
            /\ configs[i].language = language
            /\ \A j \in (i + 1)..Len(configs) : configs[j].language # language
    ELSE 0

\* A request takes the lowest free slot; it records whether a code was stored
\* when it started and which requests had been answered before.
Begin(r, op, pin) ==
    [IdleReq EXCEPT !.op = op, !.pin = pin,
                    !.startedLocked = (users[pin].validationCode # ""),
                    !.prior = {q \in Reqs : reqs[q].pc = "done"}]

FreeSlot(r) ==
    /\ reqs[r].pc = "idle"
    /\ \A q \in Reqs : q < r => reqs[q].pc # "idle"

\* lock, lines 255-278: the request arrives and db.User.findOne answers.
LockFindUser(r, pin) ==
    /\ FreeSlot(r)
    /\ LET req == Begin(r, "lock", pin)
           user == users[pin]
       IN  reqs' = [reqs EXCEPT ![r] =
                IF ~user.exists
                THEN Respond(req, HTTP_NOT_FOUND, ErrorBody)
                ELSE [req EXCEPT !.pc = "findCourse", !.user = user]]
    /\ UNCHANGED <<users, courses, calcVars, valVars, structVars, speedVars, genVars,
                   wireVars, journalVars>>

\* lock without the "validation codes are immutable" check: a code is generated
\* and written whatever the stored one.
LockFindCourseNoCodeCheck(r) ==
    /\ reqs[r].op = "lock"
    /\ reqs[r].pc = "findCourse"
    /\ LET req == reqs[r]
           user == req.user
           course == courses[user.course]
           c == FirstConfigFor(course.configs, user.language)
       IN  IF ~course.exists \/ c = 0
           THEN reqs' = [reqs EXCEPT ![r] = Respond(req, HTTP_NOT_FOUND, ErrorBody)]
           ELSE \E validationCode \in GeneratedCodes(course.configs[c].config.validationSchema) :
                    reqs' = [reqs EXCEPT ![r] =
                                [req EXCEPT !.pc = "write", !.generated = TRUE,
                                            !.pendingCode = validationCode]]
    /\ UNCHANGED <<users, courses, calcVars, valVars, structVars, speedVars, genVars,
                   wireVars, journalVars>>

\* lock, lines 280-322: db.Course.findOne answers; the config of the language;
\* the stored code is returned, or a new one generated and the write issued.
LockFindCourse(r) ==
    /\ reqs[r].op = "lock"
    /\ reqs[r].pc = "findCourse"
    /\ LET req == reqs[r]
           user == req.user
           course == courses[user.course]
           c == FirstConfigFor(course.configs, user.language)
       IN  IF ~course.exists \/ c = 0
           THEN reqs' = [reqs EXCEPT ![r] = Respond(req, HTTP_NOT_FOUND, ErrorBody)]
           ELSE IF IsLocked(user)
           THEN reqs' = [reqs EXCEPT ![r] =
                            Respond(req, HTTP_OK, CodeBody(user.validationCode))]
           ELSE \E validationCode \in GeneratedCodes(course.configs[c].config.validationSchema) :
                    reqs' = [reqs EXCEPT ![r] =
                                [req EXCEPT !.pc = "write", !.generated = TRUE,
                                            !.pendingCode = validationCode]]
    /\ UNCHANGED <<users, courses, calcVars, valVars, structVars, speedVars, genVars,
                   wireVars, journalVars>>

\* db.User.updateOne({pin}, {...}, {upsert: false}): nothing without the user.
UpdateOneCode(store, pin, code) ==
    IF store[pin].exists THEN [store EXCEPT ![pin].validationCode = code] ELSE store

UpdateOneTests(store, pin, tests) ==
    IF store[pin].exists THEN [store EXCEPT ![pin].tests = tests] ELSE store

\* lock, lines 324-333: the store applies the write and the code is answered.
LockWrite(r) ==
    /\ reqs[r].op = "lock"
    /\ reqs[r].pc = "write"
    /\ users' = UpdateOneCode(users, reqs[r].pin, reqs[r].pendingCode)
    /\ reqs' = [reqs EXCEPT ![r] =
                    Respond([reqs[r] EXCEPT !.wrote = TRUE], HTTP_OK,
                            CodeBody(reqs[r].pendingCode))]
    /\ UNCHANGED <<courses, calcVars, valVars, structVars, speedVars, genVars,
                   wireVars, journalVars>>

\* update without the "results are frozen" check.
UpdateFindUserNoLockCheck(r, pin) ==
    /\ FreeSlot(r)
    /\ LET req == Begin(r, "update", pin)
           user == users[pin]
       IN  reqs' = [reqs EXCEPT ![r] =
                IF ~user.exists
                THEN Respond(req, HTTP_NOT_FOUND, ErrorBody)
                ELSE [req EXCEPT !.pc = "findCourse", !.user = user]]
    /\ UNCHANGED <<users, courses, calcVars, valVars, structVars, speedVars, genVars,
                   wireVars, journalVars>>

\* update, lines 347-377: the request arrives, db.User.findOne answers, and a
\* locked result is answered as it is.
UpdateFindUser(r, pin) ==
    /\ FreeSlot(r)
    /\ LET req == Begin(r, "update", pin)
           user == users[pin]
       IN  reqs' = [reqs EXCEPT ![r] =
                IF ~user.exists
                THEN Respond(req, HTTP_NOT_FOUND, ErrorBody)
                ELSE IF IsLocked(user)
                THEN Respond([req EXCEPT !.user = user], HTTP_OK, TestsBody(user.tests))
                ELSE [req EXCEPT !.pc = "findCourse", !.user = user]]
    /\ UNCHANGED <<users, courses, calcVars, valVars, structVars, speedVars, genVars,
                   wireVars, journalVars>>

\* update without the test of lines 413-416: the write is issued whatever
\* calculate returns.
UpdateFindCourseNoNullCheck(r) ==
    /\ reqs[r].op = "update"
    /\ reqs[r].pc = "findCourse"
    /\ LET req == reqs[r]
           user == req.user
           course == courses[user.course]
           c == LastConfigFor(course.configs, user.language)
           testResults == Calculate(course.configs[c].config, user.journal)
       IN  reqs' = [reqs EXCEPT ![r] =
                IF ~course.exists \/ c = 0
                THEN Respond(req, HTTP_NOT_FOUND, ErrorBody)
                ELSE [req EXCEPT !.pc = "write", !.pendingTests = testResults.tests]]
    /\ UNCHANGED <<users, courses, calcVars, valVars, structVars, speedVars, genVars,
                   wireVars, journalVars>>

\* update, lines 379-420: db.Course.findOne answers; the config of the
\* language; calculate on the journal that was read; the write is issued.
UpdateFindCourse(r) ==
    /\ reqs[r].op = "update"
    /\ reqs[r].pc = "findCourse"
    /\ LET req == reqs[r]
           user == req.user
           course == courses[user.course]
           c == LastConfigFor(course.configs, user.language)
           testResults == Calculate(course.configs[c].config, user.journal)
       IN  reqs' = [reqs EXCEPT ![r] =
                IF ~course.exists \/ c = 0
                THEN Respond(req, HTTP_NOT_FOUND, ErrorBody)
                ELSE IF testResults.isNull
                THEN Respond(req, HTTP_NOT_FOUND, ErrorBody)
                ELSE [req EXCEPT !.pc = "write", !.pendingTests = testResults.tests]]
    /\ UNCHANGED <<users, courses, calcVars, valVars, structVars, speedVars, genVars,
                   wireVars, journalVars>>

\* update, lines 418-428: the store applies the write; an empty 200 answer.
UpdateWrite(r) ==
    /\ reqs[r].op = "update"
    /\ reqs[r].pc = "write"
    /\ users' = UpdateOneTests(users, reqs[r].pin, reqs[r].pendingTests)
    /\ reqs' = [reqs EXCEPT ![r] =
                    Respond([reqs[r] EXCEPT !.wrote = TRUE], HTTP_OK, NoBody)]
    /\ UNCHANGED <<courses, calcVars, valVars, structVars, speedVars, genVars,
                   wireVars, journalVars>>

\* The course documents are authored outside this code and read anew by every
\* request: a course is withdrawn from the store.
WithdrawCourse(name) ==
    /\ courses[name].exists
    /\ courses' = [courses EXCEPT ![name] = NoCourse]
    /\ UNCHANGED <<users, reqs, calcVars, valVars, structVars, speedVars, genVars,
                   wireVars, journalVars>>

NotCalculated == [done |-> FALSE, isNull |-> FALSE, tests |-> <<>>]

CalcIdle ==
    /\ calcConfig = [tests |-> <<>>]
    /\ calcJournal = EmptyJournal
    /\ calcResult = NotCalculated

ValidateIdle ==
    /\ valConfig = [tests |-> <<>>, testgroups |-> <<>>, sets |-> <<>>, infopages |-> <<>>]
    /\ valResult = "idle"

LockIdle ==
    /\ users = <<>>
    /\ courses = <<>>
    /\ reqs = <<>>

NotBuilding ==
    [pc |-> "idle", g |-> 1, indices |-> <<>>, temp |-> <<>>, testsInTestgroup |-> <<>>]

NoCalls == [call |-> 0, config |-> <<>>, fresh |-> <<>>, resumed |-> <<>>]

StructIdle ==
    /\ configFile = <<>>
    /\ journalStrucMin = <<>>
    /\ builder = NotBuilding
    /\ journalStructure = <<>>
    /\ history = NoCalls

NotScored == [done |-> FALSE, score |-> 0, correct |-> <<>>, wrong |-> <<>>]

SpeedIdle ==
    /\ speedOptions = <<>>
    /\ speedLog = <<>>
    /\ speedResult = NotScored
    /\ stringLogResult = NotScored

GenIdle ==
    /\ genSchema = <<>>
    /\ genCode = <<>>
    /\ genPc = "idle"

NotConverted == [done |-> FALSE, sets |-> <<>>]

WireIdle ==
    /\ journalLog = [sets |-> <<>>]
    /\ protoObj = NotConverted
    /\ extractedLog = NotConverted

JournalIdle ==
    /\ journals = <<>>
    /\ saves = <<>>

InitLock ==
    /\ WireIdle
    /\ JournalIdle
    /\ users \in [Pins -> InitialUsers]
    /\ courses = InitialCourses
    /\ reqs = [r \in Reqs |-> IdleReq]
    /\ CalcIdle
    /\ ValidateIdle
    /\ StructIdle
    /\ SpeedIdle
    /\ GenIdle

NextLock ==
    \/ \E r \in Reqs, pin \in Pins : LockFindUser(r, pin)
    \/ \E r \in Reqs : LockFindCourse(r)
    \/ \E r \in Reqs : LockWrite(r)
    \/ \E r \in Reqs, pin \in Pins : UpdateFindUser(r, pin)
    \/ \E r \in Reqs : UpdateFindCourse(r)
    \/ \E r \in Reqs : UpdateWrite(r)
    \/ \E name \in CourseNames : WithdrawCourse(name)

SpecLock == InitLock /\ [][NextLock]_vars

(***************************************************************************)
(* Properties of lock and update, under SpecLock.                          *)
(***************************************************************************)
CodeStored(pin) == users[pin].validationCode # ""

LockRequests(pin) == {r \in Reqs : reqs[r].op = "lock" /\ reqs[r].pin = pin}

\* The lock requests of a pin ran one after the other: of any two, one had
\* been answered before the other arrived.
SequentialLocks(pin) ==
    \A a, b \in LockRequests(pin) :
        a # b => (a \in reqs[b].prior \/ b \in reqs[a].prior)

\* The pin's user exists and the config of its course and language is found.
ConfigResolves(pin) ==
    /\ users[pin].exists
    /\ courses[users[pin].course].exists
    /\ FirstConfigFor(courses[users[pin].course].configs, users[pin].language) # 0

\* C1: once a validation code is stored for a pin, no step of any interleaving
\* of lock and update requests changes the pin's stored result.tests.
C1_LockedTestsNeverChange ==
    [][\A pin \in Pins :
          CodeStored(pin) => users'[pin].tests = users[pin].tests]_vars

LockedTwice(r1, r2) ==
    /\ reqs[r1].op = "lock"
    /\ reqs[r2].op = "lock"
    /\ reqs[r1].pin = reqs[r2].pin
    /\ r1 \in reqs[r2].prior
    /\ reqs[r2].pc = "done"
    /\ SequentialLocks(reqs[r1].pin)
    /\ ConfigResolves(reqs[r1].pin)

C3_State ==
    \A r1, r2 \in Reqs :
        LockedTwice(r1, r2) =>
            /\ reqs[r1].status = HTTP_OK
            /\ reqs[r2].status = HTTP_OK
            /\ reqs[r1].body.kind = "code"
            /\ reqs[r2].body = reqs[r1].body
            /\ ~reqs[r2].generated
            /\ ~reqs[r2].wrote

\* C3: two lock calls on an existing pin whose config resolves, run one after
\* the other, return the same validation code; the second generates nothing
\* and writes nothing; no step of a lock request changes stored result.tests.
C3_LockIdempotent ==
    [][/\ C3_State'
       /\ \A r \in Reqs :
            (reqs'[r] # reqs[r] /\ reqs'[r].op = "lock") =>
                \A pin \in Pins : users'[pin].tests = users[pin].tests]_vars

\* C3's case: a second lock answered after a first, the stored tests not empty.
C3_Witness ==
    \E r1, r2 \in Reqs :
        /\ LockedTwice(r1, r2)
        /\ reqs[r2].body.code = users[reqs[r2].pin].validationCode
        /\ users[reqs[r2].pin].tests # <<>>

\* C4: the validation code of a pin is written at most once, and once no lock
\* request of the pin is in flight every answered one has returned the stored
\* code.
C4_CodeCreatedOnce ==
    \A pin \in Pins :
        /\ Cardinality({r \in LockRequests(pin) : reqs[r].wrote}) <= 1
        /\ (\A r \in LockRequests(pin) : reqs[r].pc = "done") =>
              \A r \in LockRequests(pin) :
                  reqs[r].status = HTTP_OK =>
                      reqs[r].body.code = users[pin].validationCode

\* C24: a lock request that arrives when a validation code is stored for its
\* pin is answered with HTTP 200 and the stored code and writes nothing,
\* whether or not the pin's course and the config of its language are found.
C24_LockReturnsStoredCode ==
    \A r \in Reqs :
        (reqs[r].op = "lock" /\ reqs[r].startedLocked /\ reqs[r].pc = "done") =>
            /\ reqs[r].status = HTTP_OK
            /\ reqs[r].body = CodeBody(reqs[r].user.validationCode)
            /\ ~reqs[r].wrote

\* update's request r is about to call calculate, and calculate returns null:
\* the course and the config of the language are found, and a test of the
\* journal structure has no config or an evaluated test has no log.
CalculateReturnsNull(r) ==
    /\ reqs[r].op = "update"
    /\ reqs[r].pc = "findCourse"
    /\ LET user == reqs[r].user
           course == courses[user.course]
           c == LastConfigFor(course.configs, user.language)
       IN  /\ course.exists
           /\ c # 0
           /\ Calculate(course.configs[c].config, user.journal).isNull

\* C25: the step of an update request in which calculate returns null leaves
\* the store as it is, issues no write and answers HTTP 404.
C25_NoResultNoWrite ==
    [][\A r \in Reqs :
          (CalculateReturnsNull(r) /\ reqs'[r] # reqs[r]) =>
              /\ users' = users
              /\ reqs'[r].pc = "done"
              /\ reqs'[r].status = HTTP_NOT_FOUND
              /\ reqs'[r].body = ErrorBody
              /\ ~reqs'[r].wrote]_vars

\* C25's case: an update answered with 404 for the user whose journal lists
\* test 1 and holds no log, the course still in the store.
C25_Witness ==
    \E r \in Reqs :
        /\ reqs[r].op = "update"
        /\ reqs[r].pc = "done"
        /\ reqs[r].user = NewUser("math", "en", JournalUnanswered)
        /\ courses["math"].exists
        /\ reqs[r].status = HTTP_NOT_FOUND
        /\ users[reqs[r].pin] = reqs[r].user

\* An update request of the pin that read the user before the code was stored
\* and has not been answered yet.
StaleUpdateInFlight(pin) ==
    \E r \in Reqs :
        /\ reqs[r].op = "update"
        /\ reqs[r].pin = pin
        /\ reqs[r].pc \in {"findCourse", "write"}

\* A code is stored for the pin, no results are, and no update that arrived
\* before the code was stored is still on its way.
LockedWithoutResults(pin) ==
    /\ CodeStored(pin)
    /\ users[pin].tests = <<>>
    /\ ~StaleUpdateInFlight(pin)

SpeedText == <<"a", "b", ":", "c", "d", ":", "e", "f">>

\* An option of a speed test: SpeedTest's schema requires 'correct' and 'index'.
CalcSpeedOption(index) ==
    [hasCorrect |-> TRUE, correct |-> <<":">>, text |-> SpeedText,
     index |-> [parsable |-> TRUE, value |-> index]]

\* The tests of a config: radio buttons with 'correct' on both options or on
\* the first only, a test without category, a speed test.
CalcTests ==
    [id : TestIds, category : {"radio-buttons", NoCategory}, evaluated : BOOLEAN,
     options : {<<[hasCorrect |-> TRUE, correct |-> TRUE],
                  [hasCorrect |-> TRUE, correct |-> FALSE]>>}]
    \cup [id : TestIds, category : {"radio-buttons"}, evaluated : BOOLEAN,
          options : {<<[hasCorrect |-> TRUE, correct |-> TRUE],
                       [hasCorrect |-> FALSE, correct |-> FALSE]>>}]
    \cup [id : TestIds, category : {"speed"}, evaluated : BOOLEAN,
          options : {<<CalcSpeedOption(0), CalcSpeedOption(1)>>}]

CalcStructureSets == [tests : SeqsUpTo(TestIds, MaxSetTests)]

CalcLogSets ==
    [maps : SeqsUpTo([key : TestIds, val : {<<TRUE, FALSE>>, <<FALSE, TRUE>>}], MaxMaps)]

InitCalc ==
    /\ WireIdle
    /\ JournalIdle
    /\ \E tests \in SeqsUpTo(CalcTests, Cardinality(TestIds)) :
          /\ \A i, j \in DOMAIN tests : i # j => tests[i].id # tests[j].id
          /\ calcConfig = [tests |-> tests]
    /\ \E structure \in SeqsUpTo(CalcStructureSets, MaxSets),
          log \in SeqsUpTo(CalcLogSets, MaxSets) :
          calcJournal = [structure |-> [sets |-> structure], log |-> [sets |-> log]]
    /\ calcResult = NotCalculated
    /\ LockIdle
    /\ ValidateIdle
    /\ StructIdle
    /\ SpeedIdle
    /\ GenIdle

RunCalculate ==
    /\ ~calcResult.done
    /\ LET tests == Calculate(calcConfig, calcJournal)
       IN  calcResult' = [done |-> TRUE, isNull |-> tests.isNull, tests |-> tests.tests]
    /\ UNCHANGED <<calcConfig, calcJournal, lockVars, valVars, structVars, speedVars, genVars,
                   wireVars, journalVars>>

NextCalc == RunCalculate

SpecCalc == InitCalc /\ [][NextCalc]_vars

(***************************************************************************)
(* Properties of calculate, under SpecCalc.                                *)
(***************************************************************************)
\* The test ids of journal.structure in the order listed, set by set.
RECURSIVE Flatten(_, _)
Flatten(sets, s) ==
    IF s > Len(sets) THEN <<>> ELSE sets[s].tests \o Flatten(sets, s + 1)

Listed == Flatten(calcJournal.structure.sets, 1)

ListedIds == Range(Listed)

ConfiguredIds == {calcConfig.tests[i].id : i \in DOMAIN calcConfig.tests}

ConfigOf(id) ==
    calcConfig.tests[CHOOSE i \in DOMAIN calcConfig.tests : calcConfig.tests[i].id = id]

LoggedIds ==
    UNION {{calcJournal.log.sets[s].maps[m].key : m \in DOMAIN calcJournal.log.sets[s].maps} :
            s \in DOMAIN calcJournal.log.sets}

ResultIds == {calcResult.tests[i].id : i \in DOMAIN calcResult.tests}

\* The listed tests that are to be evaluated, and those of them with a strategy.
EvaluatedIds == {id \in ListedIds \cap ConfiguredIds : ConfigOf(id).evaluated}

ScoredIds == {id \in EvaluatedIds : ConfigOf(id).category \in StrategyCategories}

\* Data is missing: a listed test without config, or an evaluated one without
\* log entry.
DataMissing ==
    \/ \E id \in ListedIds : id \notin ConfiguredIds
    \/ \E id \in EvaluatedIds : id \notin LoggedIds

\* C5: when a listed test has no config, or an evaluated test no log entry,
\* calculate returns null and no result list, whatever the other tests are.
C5_AbortsOnMissingData ==
    (calcResult.done /\ DataMissing) => (calcResult.isNull /\ calcResult.tests = <<>>)

\* C5's case: calculate has run on two listed tests, the first with config and
\* log, the second evaluated and without log.
C5_Witness ==
    /\ calcResult.done
    /\ calcResult.isNull
    /\ Len(Listed) = 2
    /\ Listed[1] # Listed[2]
    /\ ListedIds \subseteq ScoredIds
    /\ Listed[1] \in LoggedIds
    /\ Listed[2] \notin LoggedIds

\* The position of the first occurrence of an id in the structure.
FirstListed(id) == CHOOSE i \in DOMAIN Listed : Listed[i] = id /\ \A j \in 1..(i - 1) : Listed[j] # id

\* C6 as stated: the results come in the order in which their tests are listed
\* in journal.structure.
C6_StructureOrder ==
    (calcResult.done /\ ~calcResult.isNull) =>
        \A i, j \in DOMAIN calcResult.tests :
            i < j => FirstListed(calcResult.tests[i].id) < FirstListed(calcResult.tests[j].id)

\* C6 amended: the results are one flat list, not grouped by set, of listed,
\* evaluated tests, at most one entry per test, in ascending order of test id
\* whatever the order of the structure.
C6_AscendingIdOrder ==
    (calcResult.done /\ ~calcResult.isNull) =>
        /\ ResultIds \subseteq EvaluatedIds
        /\ \A i, j \in DOMAIN calcResult.tests :
              i < j => calcResult.tests[i].id < calcResult.tests[j].id

\* C6's case: two results, the test of the second listed before the test of the
\* first.
C6_Witness ==
    /\ calcResult.done
    /\ ~calcResult.isNull
    /\ Len(calcResult.tests) = 2
    /\ FirstListed(calcResult.tests[2].id) < FirstListed(calcResult.tests[1].id)

\* C7: when calculate does not abort, no test with evaluated = false is in the
\* output and every evaluated test with a strategy is; and a log entry missing
\* for a test with evaluated = false does not make it abort.
C7_UnevaluatedSkipped ==
    calcResult.done =>
        /\ ~calcResult.isNull =>
              /\ \A id \in ListedIds : ~ConfigOf(id).evaluated => id \notin ResultIds
              /\ ScoredIds \subseteq ResultIds
        /\ ~DataMissing => ~calcResult.isNull

\* C7's case: a result list with an evaluated test in it, computed from a
\* structure that also lists a test with evaluated = false and no log entry.
C7_Witness ==
    /\ calcResult.done
    /\ ~calcResult.isNull
    /\ calcResult.tests # <<>>
    /\ \E id \in ListedIds : ~ConfigOf(id).evaluated /\ id \notin LoggedIds

\* The listed, evaluated tests whose category has no strategy.
UnscoredIds == EvaluatedIds \ ScoredIds

\* C8: a test whose category has no strategy gets no result entry and does not
\* make calculate return null; every other evaluated test gets its entry.
C8_NoStrategySkipped ==
    (calcResult.done /\ UnscoredIds # {} /\ ~DataMissing) =>
        /\ ~calcResult.isNull
        /\ UnscoredIds \cap ResultIds = {}
        /\ Len(calcResult.tests) = Cardinality(ScoredIds)
        /\ \A id \in ScoredIds : \E i \in DOMAIN calcResult.tests : calcResult.tests[i].id = id

\* C8's case: a test without strategy listed before one with a strategy, which
\* has its result.
C8_Witness ==
    /\ calcResult.done
    /\ Len(calcResult.tests) = 1
    /\ \E id \in UnscoredIds : id < calcResult.tests[1].id /\ FirstListed(id) = 1

\* The number of options of a test that carry a 'correct' attribute.
OptionsWithCorrect(test) ==
    Cardinality({i \in DOMAIN test.options : test.options[i].hasCorrect})

LogSetsWith(id) ==
    {s \in DOMAIN calcJournal.log.sets :
        \E m \in DOMAIN calcJournal.log.sets[s].maps :
            calcJournal.log.sets[s].maps[m].key = id}

\* The entry of the id in the last log set that holds it as a key.
LastLogged(id) ==
    LET last == CHOOSE s \in LogSetsWith(id) : \A t \in LogSetsWith(id) : t <= s
        maps == calcJournal.log.sets[last].maps
    IN  maps[CHOOSE m \in DOMAIN maps :
                /\ maps[m].key = id
                /\ \A n \in 1..(m - 1) : maps[n].key # id].val

\* The number of times the id is listed in journal.structure.
TimesListed(id) == Cardinality({i \in DOMAIN Listed : Listed[i] = id})

\* C29: calculate returns at most one result per test id; a listed test that
\* is scored has exactly one entry, however often and in however many sets it
\* is listed, and the entry is the score of its log entry in the last log set
\* that holds its id as a key.
C29_OneResultPerTest ==
    (calcResult.done /\ ~calcResult.isNull) =>
        /\ \A i, j \in DOMAIN calcResult.tests :
              i # j => calcResult.tests[i].id # calcResult.tests[j].id
        /\ \A id \in ScoredIds :
              \E i \in DOMAIN calcResult.tests :
                  LET scored == CalculateResult(
                                    FactoryCreate(ConfigOf(id).category, ConfigOf(id)),
                                    LastLogged(id))
                  IN  /\ calcResult.tests[i].id = id
                      /\ calcResult.tests[i].score = scored.score
                      /\ calcResult.tests[i].correctOptions = scored.correct
                      /\ calcResult.tests[i].wrongOptions = scored.wrong

\* C29's case: a test with radio buttons listed in two sets, its id a key of
\* two log sets, the first with the correct option and the second with the
\* wrong one: one result, with score 0.
C29_Witness ==
    /\ calcResult.done
    /\ ~calcResult.isNull
    /\ Len(calcJournal.structure.sets) = 2
    /\ \E id \in ScoredIds :
          /\ ConfigOf(id).category = "radio-buttons"
          /\ \A s \in DOMAIN calcJournal.structure.sets :
                Includes(calcJournal.structure.sets[s].tests, id)
          /\ TimesListed(id) >= 2
          /\ LogSetsWith(id) = {1, 2}
          /\ calcJournal.log.sets[1].maps[1].val = <<TRUE, FALSE>>
          /\ calcJournal.log.sets[2].maps[1].val = <<FALSE, TRUE>>
          /\ Len(calcResult.tests) = 1
          /\ calcResult.tests[1].id = id
          /\ calcResult.tests[1].score = 0
          /\ calcResult.tests[1].wrongOptions # <<>>

(***************************************************************************)
(* CourseSchema.statics.validateConfig (result.controller.js lines         *)
(* 495-525 and 699-835).                                                   *)
(*                                                                         *)
(* A document is [tests, testgroups, sets, infopages]; a test is [id,      *)
(* category, options], category NoCategory when the attribute is absent    *)
(* (the schema does not require it); an option is [hasCorrect, correct].   *)
(* A missing testgroups, sets or infopages array is the empty sequence:    *)
(* validateConfig treats both alike.                                       *)
(***************************************************************************)
\* SINGLE_TEST_SCHEMA's "category" enum.
CategoryEnum == {"checkbox", "multiple-options", "radio-buttons", "speed"}

\* The schema pass without "speed" in the category enum.
StructuralPassWithoutSpeed(config) ==
    \A i \in DOMAIN config.tests :
        \/ config.tests[i].category = NoCategory
        \/ config.tests[i].category \in {"checkbox", "multiple-options", "radio-buttons"}

\* 1. the schema pass. The documents of the model have every required
\* attribute with its type; what the schema can reject in them is a category.
StructuralPass(config) ==
    \A i \in DOMAIN config.tests :
        config.tests[i].category = NoCategory \/ config.tests[i].category \in CategoryEnum

RejectIds == [ok |-> FALSE, ids |-> <<>>]

\* for (const option of test['options']) if (!('correct' in option)) return false
EveryOptionHasCorrect(options) == \A i \in DOMAIN options : options[i].hasCorrect

\* 2. the single tests: ids unique, 'correct' on every option of a
\* multiple-options and of a speed test. Answers the ids collected.
RECURSIVE CheckTests(_, _, _)
CheckTests(tests, i, testIDs) ==
    IF i > Len(tests) THEN [ok |-> TRUE, ids |-> testIDs]
    ELSE LET test == tests[i] IN
         IF Includes(testIDs, test.id) THEN RejectIds
         ELSE IF test.category = "multiple-options" /\ ~EveryOptionHasCorrect(test.options)
         THEN RejectIds
         ELSE IF test.category = "speed" /\ ~EveryOptionHasCorrect(test.options)
         THEN RejectIds
         ELSE CheckTests(tests, i + 1, Append(testIDs, test.id))

\* 3. the test groups: ids unique, every group.tests id a test id.
RECURSIVE CheckTestgroups(_, _, _, _)
CheckTestgroups(testgroups, i, testIDs, testgroupIDs) ==
    IF i > Len(testgroups) THEN [ok |-> TRUE, ids |-> testgroupIDs]
    ELSE LET group == testgroups[i] IN
         IF Includes(testgroupIDs, group.id) THEN RejectIds
         ELSE IF \E k \in DOMAIN group.tests : ~Includes(testIDs, group.tests[k])
         THEN RejectIds
         ELSE CheckTestgroups(testgroups, i + 1, testIDs, Append(testgroupIDs, group.id))

\* The check of the sets with the group ids left out of the lookup.
RECURSIVE CheckTestsetsTestsOnly(_, _, _, _, _)
CheckTestsetsTestsOnly(testsets, i, testIDs, testgroupIDs, testsetIDs) ==
    IF i > Len(testsets) THEN [ok |-> TRUE, ids |-> testsetIDs]
    ELSE LET set == testsets[i] IN
         IF Includes(testsetIDs, set.id) THEN RejectIds
         ELSE IF \E k \in DOMAIN set.elements : ~Includes(testIDs, set.elements[k])
         THEN RejectIds
         ELSE CheckTestsetsTestsOnly(testsets, i + 1, testIDs, testgroupIDs,
                                     Append(testsetIDs, set.id))

\* 4. the sets: ids unique, every element id a test id or a group id.
RECURSIVE CheckTestsets(_, _, _, _, _)
CheckTestsets(testsets, i, testIDs, testgroupIDs, testsetIDs) ==
    IF i > Len(testsets) THEN [ok |-> TRUE, ids |-> testsetIDs]
    ELSE LET set == testsets[i] IN
         IF Includes(testsetIDs, set.id) THEN RejectIds
         ELSE IF \E k \in DOMAIN set.elements :
                    /\ ~Includes(testIDs, set.elements[k])
                    /\ ~Includes(testgroupIDs, set.elements[k])
         THEN RejectIds
         ELSE CheckTestsets(testsets, i + 1, testIDs, testgroupIDs,
                            Append(testsetIDs, set.id))

\* 5. the infopages: ids unique, every belongs id a test, group or set id.
RECURSIVE CheckInfopages(_, _, _, _, _, _)
CheckInfopages(infopages, i, testIDs, testgroupIDs, testsetIDs, infopageIDs) ==
    IF i > Len(infopages) THEN [ok |-> TRUE, ids |-> infopageIDs]
    ELSE LET page == infopages[i] IN
         IF Includes(infopageIDs, page.id) THEN RejectIds
         ELSE IF \E k \in DOMAIN page.belongs :
                    /\ ~Includes(testIDs, page.belongs[k])
                    /\ ~Includes(testgroupIDs, page.belongs[k])
                    /\ ~Includes(testsetIDs, page.belongs[k])
         THEN RejectIds
         ELSE CheckInfopages(infopages, i + 1, testIDs, testgroupIDs, testsetIDs,
                             Append(infopageIDs, page.id))

\* validateConfig(config): true or false.
ValidateConfig(config) ==
    IF ~StructuralPass(config) THEN FALSE
    ELSE LET t == CheckTests(config.tests, 1, <<>>) IN
         IF ~t.ok THEN FALSE
         ELSE LET g == CheckTestgroups(config.testgroups, 1, t.ids, <<>>) IN
              IF ~g.ok THEN FALSE
              ELSE LET s == CheckTestsets(config.sets, 1, t.ids, g.ids, <<>>) IN
                   IF ~s.ok THEN FALSE
                   ELSE CheckInfopages(config.infopages, 1, t.ids, g.ids, s.ids, <<>>).ok

(***************************************************************************)
(* SpecValidate: validateConfig applied to every document of at most       *)
(* MaxEntities tests, groups, sets and infopages.                          *)
(***************************************************************************)
WithCorrect == [hasCorrect |-> TRUE, correct |-> TRUE]
WithoutCorrect == [hasCorrect |-> FALSE, correct |-> FALSE]

DocCategories == CategoryEnum \cup {"multiple-choice", NoCategory}

DocTests ==
    [id : TestIds, category : DocCategories,
     options : {<<WithCorrect>>, <<WithoutCorrect>>, <<WithCorrect, WithoutCorrect>>}]

DocRefs == SeqsUpTo(TestIds, MaxRefs)
DocTestgroups == [id : TestIds, tests : DocRefs]
DocSets == [id : TestIds, elements : DocRefs]
DocInfopages == [id : TestIds, belongs : DocRefs]

DocCounts ==
    {c \in [1..4 -> 0..MaxEntities] : c[1] + c[2] + c[3] + c[4] <= MaxEntities}

\* Every document of c[1] tests, c[2] groups, c[3] sets and c[4] infopages.
InitValidate ==
    /\ WireIdle
    /\ JournalIdle
    /\ \E c \in DocCounts :
         \E t \in [1..c[1] -> DocTests], g \in [1..c[2] -> DocTestgroups],
            s \in [1..c[3] -> DocSets], p \in [1..c[4] -> DocInfopages] :
                valConfig = [tests |-> t, testgroups |-> g, sets |-> s, infopages |-> p]
    /\ valResult = "idle"
    /\ LockIdle
    /\ CalcIdle
    /\ StructIdle
    /\ SpeedIdle
    /\ GenIdle

Validate ==
    /\ valResult = "idle"
    /\ valResult' = IF ValidateConfig(valConfig) THEN "true" ELSE "false"
    /\ UNCHANGED <<valConfig, lockVars, calcVars, structVars, speedVars, genVars,
                   wireVars, journalVars>>

NextValidate == Validate

SpecValidate == InitValidate /\ [][NextValidate]_vars

(***************************************************************************)
(* Properties of validateConfig, under SpecValidate.                       *)
(***************************************************************************)
IdsOf(entities) == {entities[i].id : i \in DOMAIN entities}

PairwiseDistinctIds(entities) ==
    \A i, j \in DOMAIN entities : i # j => entities[i].id # entities[j].id

\* (i) to (v) of the semantic pass, stated on the document.
UniqueTestIds(config) == PairwiseDistinctIds(config.tests)

CorrectWhereRequired(config) ==
    \A i \in DOMAIN config.tests :
        config.tests[i].category \in {"multiple-options", "speed"} =>
            \A k \in DOMAIN config.tests[i].options : config.tests[i].options[k].hasCorrect

GroupsValid(config) ==
    /\ PairwiseDistinctIds(config.testgroups)
    /\ \A i \in DOMAIN config.testgroups :
          Range(config.testgroups[i].tests) \subseteq IdsOf(config.tests)

SetsValid(config) ==
    /\ PairwiseDistinctIds(config.sets)
    /\ \A i \in DOMAIN config.sets :
          Range(config.sets[i].elements)
              \subseteq (IdsOf(config.tests) \cup IdsOf(config.testgroups))

InfopagesValid(config) ==
    /\ PairwiseDistinctIds(config.infopages)
    /\ \A i \in DOMAIN config.infopages :
          Range(config.infopages[i].belongs)
              \subseteq (IdsOf(config.tests) \cup IdsOf(config.testgroups)
                            \cup IdsOf(config.sets))

SatisfiesDataModel(config) ==
    /\ UniqueTestIds(config)
    /\ CorrectWhereRequired(config)
    /\ GroupsValid(config)
    /\ SetsValid(config)
    /\ InfopagesValid(config)

CategoriesOf(config) == {config.tests[i].category : i \in DOMAIN config.tests}

\* C9: a document that passes the schema pass is accepted exactly when (i) to
\* (v) all hold.
C9_ValidateIffSemanticallyValid ==
    (valResult # "idle" /\ StructuralPass(valConfig)) =>
        (valResult = "true" <=> SatisfiesDataModel(valConfig))

\* C9's case: an accepted document with a test, a group of it, and a set of the
\* group; and validateConfig has run.
C9_Witness ==
    /\ valResult = "true"
    /\ Len(valConfig.tests) = 1
    /\ Len(valConfig.testgroups) = 1
    /\ Len(valConfig.sets) = 1
    /\ valConfig.testgroups[1].tests # <<>>
    /\ valConfig.sets[1].elements = <<valConfig.testgroups[1].id>>
    /\ valConfig.testgroups[1].id # valConfig.tests[1].id

\* C10 as stated: a document that satisfies the data model and whose tests are
\* of the five categories is accepted.
C10_FiveCategoriesAccepted ==
    (/\ valResult # "idle"
     /\ SatisfiesDataModel(valConfig)
     /\ CategoriesOf(valConfig) \subseteq
            {"checkbox", "radio-buttons", "multiple-choice", "multiple-options", "speed"})
        => valResult = "true"

\* C10 amended: a document that satisfies the data model and whose tests are of
\* the four categories checkbox, radio-buttons, multiple-options and speed is
\* accepted; a document with a test of category multiple-choice is rejected.
C10_FourCategoriesAccepted ==
    valResult # "idle" =>
        /\ (SatisfiesDataModel(valConfig) /\ CategoriesOf(valConfig) \subseteq CategoryEnum)
                => valResult = "true"
        /\ "multiple-choice" \in CategoriesOf(valConfig) => valResult = "false"

\* C10's case: an accepted document with a speed and a checkbox test.
C10_Witness ==
    /\ valResult = "true"
    /\ {"speed", "checkbox"} \subseteq CategoriesOf(valConfig)

(***************************************************************************)
(* LocalStorageService.createJournalStructure (local-storage.service.ts):  *)
(* the journal structure built from a config file, for a new user (no      *)
(* minimal structure: the tests of a group with 'select' are drawn at      *)
(* random, one draw per step) and for a returning user (from the minimal   *)
(* structure stored for the pin).  An element of a set is the test or      *)
(* infopage object of the config: its id and its elementType.              *)
(* Test, group, set and infopage ids are taken from four disjoint ranges.  *)
(***************************************************************************)
MaxGroups == 1
MaxGroupTests == 2
MaxSelect == 2
MaxSetElements == 2
MaxInfopages == 2

FirstGroupId == 10
FirstSetId == 20
FirstInfopageId == 30

\* An attribute the object does not have.
NoElementType == "(absent)"

\* SetElementType.TEST, SetElementType.INFOPAGE
TEST == "test"
INFOPAGE == "infopage"

\* journalStrucMin of a call without the second argument.
NoMinimal == [given |-> FALSE, sets |-> <<>>]

\* lines 254-260: every test id of the minimal structure, set by set.
RECURSIVE JournalStrucRawTests(_, _)
JournalStrucRawTests(sets, s) ==
    IF s > Len(sets) THEN <<>>
    ELSE sets[s].tests \o JournalStrucRawTests(sets, s + 1)

\* lines 263-274: rawTest.elementType = TEST, page.elementType = INFOPAGE,
\* assigned on the objects of the config handed in.
MarkElementTypes(config) ==
    [config EXCEPT
        !.tests = [i \in DOMAIN config.tests |->
                      [config.tests[i] EXCEPT !.elementType = TEST]],
        !.infopages = [i \in DOMAIN config.infopages |->
                      [config.infopages[i] EXCEPT !.elementType = INFOPAGE]]]

\* The element a set holds for an object of the config.
Element(obj) == [id |-> obj.id, elementType |-> obj.elementType]

\* allSingleTests.has(id), allSingleTests.get(id)
HasSingleTest(config, id) == \E i \in DOMAIN config.tests : config.tests[i].id = id

GetSingleTest(config, id) ==
    Element(config.tests[CHOOSE i \in DOMAIN config.tests : config.tests[i].id = id])

\* allInfopages.has(id): some page lists id in 'belongs'.
HasInfopage(config, id) ==
    \E i \in DOMAIN config.infopages : Includes(config.infopages[i].belongs, id)

\* allInfopages.get(id): allInfopages.set(belongsId, page) replaces the page
\* set before under the same id, so the last page listing id is the one kept.
GetInfopage(config, id) ==
    LET last == CHOOSE i \in DOMAIN config.infopages :
                    /\ Includes(config.infopages[i].belongs, id)
                    /\ \A j \in DOMAIN config.infopages :
                          Includes(config.infopages[j].belongs, id) => j <= i
    IN  <<Element(config.infopages[last])>>

\* The branch of lines 280-300 taken for a group, with the test for
\* 'select' made first.
GroupBranchSelectFirst(group, min) ==
    IF group.hasSelect /\ group.select # 0 THEN "select"
    ELSE IF min.given THEN "minimal"
    ELSE "all"

\* The branch of lines 280-300 taken for a group: journalStrucMin != null,
\* else group.select (absent and 0 are falsy), else the whole group.
GroupBranch(group, min) ==
    IF min.given THEN "minimal"
    ELSE IF group.hasSelect /\ group.select # 0 THEN "select"
    ELSE "all"

\* lines 282-286: the tests of the group that the minimal structure lists,
\* in the order of group.tests.
RECURSIVE TestsFromMinimal(_, _, _, _)
TestsFromMinimal(config, tests, rawTests, i) ==
    IF i > Len(tests) THEN <<>>
    ELSE (IF Includes(rawTests, tests[i])
          THEN <<GetSingleTest(config, tests[i])>> ELSE <<>>)
         \o TestsFromMinimal(config, tests, rawTests, i + 1)

\* line 299: every test of the group.
AllTests(config, tests) == [i \in DOMAIN tests |-> GetSingleTest(config, tests[i])]

\* testsInTestgroup.get(id)
GetTestsInTestgroup(testsInTestgroup, id) ==
    testsInTestgroup[CHOOSE i \in DOMAIN testsInTestgroup : testsInTestgroup[i].id = id].tests

\* lines 323-330: the tests of a group, each after its infopage.
RECURSIVE GroupElements(_, _, _)
GroupElements(config, tests, i) ==
    IF i > Len(tests) THEN <<>>
    ELSE (IF HasInfopage(config, tests[i].id)
          THEN GetInfopage(config, tests[i].id) ELSE <<>>)
         \o <<tests[i]>> \o GroupElements(config, tests, i + 1)

\* The elements of a set with the test for a group made before the test for
\* a single test.
RECURSIVE SetElementsGroupFirst(_, _, _, _)
SetElementsGroupFirst(config, testsInTestgroup, elements, e) ==
    IF e > Len(elements) THEN <<>>
    ELSE LET element == elements[e] IN
         (IF HasInfopage(config, element) THEN GetInfopage(config, element) ELSE <<>>)
         \o (IF \E i \in DOMAIN testsInTestgroup : testsInTestgroup[i].id = element
             THEN GroupElements(config, GetTestsInTestgroup(testsInTestgroup, element), 1)
             ELSE <<GetSingleTest(config, element)>>)
         \o SetElementsGroupFirst(config, testsInTestgroup, elements, e + 1)

\* lines 313-332: the elements of a set.
RECURSIVE SetElements(_, _, _, _)
SetElements(config, testsInTestgroup, elements, e) ==
    IF e > Len(elements) THEN <<>>
    ELSE LET element == elements[e] IN
         (IF HasInfopage(config, element) THEN GetInfopage(config, element) ELSE <<>>)
         \o (IF HasSingleTest(config, element)
             THEN <<GetSingleTest(config, element)>>
             ELSE GroupElements(config, GetTestsInTestgroup(testsInTestgroup, element), 1))
         \o SetElements(config, testsInTestgroup, elements, e + 1)

\* lines 305-338: the sets of the structure.
CreateSets(config, testsInTestgroup) ==
    [sets |-> [s \in DOMAIN config.sets |->
                [id |-> config.sets[s].id,
                 elements |-> SetElements(config, testsInTestgroup,
                                          config.sets[s].elements, 1)]]]

\* set.elements.forEach: the ids of the elements that are tests.
RECURSIVE TestIdsOf(_, _)
TestIdsOf(elements, i) ==
    IF i > Len(elements) THEN <<>>
    ELSE (IF elements[i].elementType = TEST THEN <<elements[i].id>> ELSE <<>>)
         \o TestIdsOf(elements, i + 1)

\* prepareJournalStructureForSaving: per set, its id and the ids of its tests.
PrepareJournalStructureForSaving(structure) ==
    [given |-> TRUE,
     sets |-> [s \in DOMAIN structure.sets |->
                [set |-> structure.sets[s].id,
                 tests |-> TestIdsOf(structure.sets[s].elements, 1)]]]

(***************************************************************************)
(* SpecStruct: a new user's structure is built from a config accepted by   *)
(* validateConfig, saved in its minimal form, and rebuilt twice from the   *)
(* config and the minimal form, as for a user coming back with the pin.    *)
(***************************************************************************)
StructTest(id) ==
    [id |-> id, category |-> "checkbox", options |-> <<WithCorrect>>,
     elementType |-> NoElementType]

NonEmptySeqsUpTo(S, n) == UNION {[1..k -> S] : k \in 1..n}

\* A group, and whether it has an id of its own or the id of a test.
StructGroups ==
    {g \in [tests : NonEmptySeqsUpTo(TestIds, MaxGroupTests),
            hasSelect : BOOLEAN, select : 0..MaxSelect, idOfTest : BOOLEAN] :
        ~g.hasSelect => g.select = 0}

StructGroupIds == {FirstGroupId + i : i \in 1..MaxGroups}
StructSetIds == {FirstSetId + i : i \in 1..MaxSetElements}

RECURSIVE SumLen(_, _)
SumLen(seqs, i) == IF i > Len(seqs) THEN 0 ELSE Len(seqs[i]) + SumLen(seqs, i + 1)

\* The element lists of the sets: at most MaxSetElements elements in all.
StructSetLists ==
    {l \in NonEmptySeqsUpTo(NonEmptySeqsUpTo(TestIds \cup StructGroupIds, MaxSetElements),
                            MaxSetElements) :
        SumLen(l, 1) <= MaxSetElements}

StructBelongs == TestIds \cup StructGroupIds \cup StructSetIds

StructConfigs ==
    {[tests |-> [i \in 1..Cardinality(TestIds) |-> StructTest(i)],
      testgroups |-> [i \in DOMAIN g |->
                        [id |-> IF g[i].idOfTest THEN i ELSE FirstGroupId + i,
                         tests |-> g[i].tests,
                         hasSelect |-> g[i].hasSelect, select |-> g[i].select]],
      sets |-> [i \in DOMAIN l |-> [id |-> FirstSetId + i, elements |-> l[i]]],
      infopages |-> [i \in DOMAIN b |->
                        [id |-> FirstInfopageId + i, belongs |-> <<b[i]>>,
                         elementType |-> NoElementType]]] :
        g \in SeqsUpTo(StructGroups, MaxGroups), l \in StructSetLists,
        b \in SeqsUpTo(StructBelongs, MaxInfopages)}

InitStruct ==
    /\ WireIdle
    /\ JournalIdle
    /\ \E config \in StructConfigs :
          /\ ValidateConfig(config)
          /\ configFile = config
          /\ history = [call |-> 0, config |-> config, fresh |-> <<>>, resumed |-> <<>>]
    /\ journalStrucMin = NoMinimal
    /\ builder = NotBuilding
    /\ journalStructure = [sets |-> <<>>]
    /\ LockIdle
    /\ CalcIdle
    /\ ValidateIdle
    /\ SpeedIdle
    /\ GenIdle

\* lines 246-274: the locals of a call, after the tests and infopages of the
\* config have been given their elementType.
StartBuilding ==
    [pc |-> "groups", g |-> 1, indices |-> <<>>, temp |-> <<>>, testsInTestgroup |-> <<>>]

Group == configFile.testgroups[builder.g]

InGroups == builder.pc = "groups" /\ builder.g <= Len(configFile.testgroups)

\* line 301: testsInTestgroup.set(group.id, temp), and on to the next group.
NextGroup(temp) ==
    [builder EXCEPT !.g = @ + 1, !.indices = <<>>, !.temp = <<>>,
                    !.testsInTestgroup = Append(@, [id |-> Group.id, tests |-> temp])]

\* ConfigService.createJournalStructureFromConfigFile: the call for a new
\* user, createJournalStructure(course).
CreateFresh ==
    /\ history.call = 0
    /\ configFile' = MarkElementTypes(configFile)
    /\ journalStrucMin' = NoMinimal
    /\ builder' = StartBuilding
    /\ history' = [history EXCEPT !.call = 1]
    /\ UNCHANGED <<journalStructure, lockVars, calcVars, valVars, speedVars, genVars,
                   wireVars, journalVars>>

\* lines 280-286 and 301: a group of a returning user.
GroupFromMinimal ==
    /\ InGroups
    /\ GroupBranch(Group, journalStrucMin) = "minimal"
    /\ builder' = NextGroup(TestsFromMinimal(configFile, Group.tests,
                               JournalStrucRawTests(journalStrucMin.sets, 1), 1))
    /\ UNCHANGED <<configFile, journalStrucMin, journalStructure, history,
                   lockVars, calcVars, valVars, speedVars, genVars,
                   wireVars, journalVars>>

\* lines 290-296: one pass of the while loop, the random index drawn being
\* any of 0 .. group.tests.length - 1.
GroupDraw(index) ==
    /\ InGroups
    /\ GroupBranch(Group, journalStrucMin) = "select"
    /\ Len(builder.indices) < Group.select
    /\ index < Len(Group.tests)
    /\ builder' = IF Includes(builder.indices, index) THEN builder
                  ELSE [builder EXCEPT
                          !.indices = Append(@, index),
                          !.temp = Append(@, GetSingleTest(configFile,
                                                           Group.tests[index + 1]))]
    /\ UNCHANGED <<configFile, journalStrucMin, journalStructure, history,
                   lockVars, calcVars, valVars, speedVars, genVars,
                   wireVars, journalVars>>

\* lines 290 and 301: the while loop is left.
GroupSelected ==
    /\ InGroups
    /\ GroupBranch(Group, journalStrucMin) = "select"
    /\ ~(Len(builder.indices) < Group.select)
    /\ builder' = NextGroup(builder.temp)
    /\ UNCHANGED <<configFile, journalStrucMin, journalStructure, history,
                   lockVars, calcVars, valVars, speedVars, genVars,
                   wireVars, journalVars>>

\* lines 297-301: a group without 'select'.
GroupAll ==
    /\ InGroups
    /\ GroupBranch(Group, journalStrucMin) = "all"
    /\ builder' = NextGroup(AllTests(configFile, Group.tests))
    /\ UNCHANGED <<configFile, journalStrucMin, journalStructure, history,
                   lockVars, calcVars, valVars, speedVars, genVars,
                   wireVars, journalVars>>

\* lines 304-338: the sets are made and the structure is returned.
ReturnStructure ==
    /\ builder.pc = "groups"
    /\ builder.g > Len(configFile.testgroups)
    /\ journalStructure' = CreateSets(configFile, builder.testsInTestgroup)
    /\ builder' = [builder EXCEPT !.pc = "done"]
    /\ UNCHANGED <<configFile, journalStrucMin, history, lockVars, calcVars, valVars, speedVars, genVars,
                   wireVars, journalVars>>

\* JournalService.loadJournalStructure: the minimal structure saved for the
\* pin and the config of its course are loaded, and
\* createJournalStructure(configFile, structure) is called.
LoadJournalStructure ==
    /\ builder.pc = "done"
    /\ history.call \in {1, 2}
    /\ history' = IF history.call = 1
                  THEN [history EXCEPT !.call = 2, !.fresh = journalStructure]
                  ELSE [history EXCEPT !.call = 3, !.resumed = journalStructure]
    /\ journalStrucMin' = IF history.call = 1
                          THEN PrepareJournalStructureForSaving(journalStructure)
                          ELSE journalStrucMin
    /\ configFile' = MarkElementTypes(history.config)
    /\ builder' = StartBuilding
    /\ UNCHANGED <<journalStructure, lockVars, calcVars, valVars, speedVars, genVars,
                   wireVars, journalVars>>

NextStruct ==
    \/ CreateFresh
    \/ GroupFromMinimal
    \/ \E index \in 0..(MaxGroupTests - 1) : GroupDraw(index)
    \/ GroupSelected
    \/ GroupAll
    \/ ReturnStructure
    \/ LoadJournalStructure

SpecStruct == InitStruct /\ [][NextStruct]_vars

\* The loop of the draws goes on while a pass of it changes something.
SpecStructFair == SpecStruct /\ WF_vars(NextStruct)

(***************************************************************************)
(* Properties of createJournalStructure, under SpecStruct.                 *)
(***************************************************************************)
\* The call for the new user has returned.
FreshBuilt == history.call = 1 /\ builder.pc = "done"

\* The first, and the second, call for the returning user has returned.
ResumeBuilt == history.call = 2 /\ builder.pc = "done"

ResumeBuiltAgain == history.call = 3 /\ builder.pc = "done"

ElementIds(elements) == {elements[i].id : i \in DOMAIN elements}

\* C11: for a new user, a group whose 'select' is present with
\* 0 <= select <= number of entries of group.tests is expanded to exactly
\* select tests, pairwise distinct by id, each declared in group.tests.
C11_SelectDrawsExactly ==
    FreshBuilt =>
        \A g \in DOMAIN configFile.testgroups :
            LET group == configFile.testgroups[g]
                temp == builder.testsInTestgroup[g].tests
            IN  (group.hasSelect /\ group.select <= Len(group.tests)) =>
                    /\ Len(temp) = group.select
                    /\ Cardinality(ElementIds(temp)) = Len(temp)
                    /\ ElementIds(temp) \subseteq Range(group.tests)

\* C12: the structure of a new user is returned in the end, whatever the
\* config accepted by validateConfig and also when a group's 'select' exceeds
\* the number of entries of group.tests.
C12_FreshBuildTerminates == (history.call = 1) ~> FreshBuilt

\* C13: the structure rebuilt from the minimal form of a new user's structure
\* has, for every set, the element list of that structure.
C13_ResumeRoundTrip ==
    ResumeBuilt =>
        /\ Len(journalStructure.sets) = Len(history.fresh.sets)
        /\ \A s \in DOMAIN journalStructure.sets :
              journalStructure.sets[s].elements = history.fresh.sets[s].elements

\* C14: two calls for a returning user, with the same config and the same
\* minimal structure, return the same structure.
C14_ResumeDeterministic == ResumeBuiltAgain => journalStructure = history.resumed

\* C14's case: the second rebuild has returned, for a config with a group from
\* which two tests were drawn and which a set refers to.
C14_Witness ==
    /\ ResumeBuiltAgain
    /\ \E g \in DOMAIN configFile.testgroups :
          /\ configFile.testgroups[g].hasSelect
          /\ configFile.testgroups[g].select = 2
          /\ Len(builder.testsInTestgroup[g].tests) = 2
          /\ \E s \in DOMAIN configFile.sets :
                Includes(configFile.sets[s].elements, configFile.testgroups[g].id)
    /\ \E s \in DOMAIN journalStructure.sets : Len(journalStructure.sets[s].elements) >= 2

\* The ids that a test and a group of the config share.
SharedIds ==
    {configFile.tests[i].id : i \in DOMAIN configFile.tests}
        \cap {configFile.testgroups[g].id : g \in DOMAIN configFile.testgroups}

C15_ConfigNotMutated == builder.pc = "done" => configFile = history.config

\* Page p stands before position k of the elements, with nothing but
\* infopages between.
PageBefore(elements, p, k) ==
    \E j \in 1..(k - 1) :
        /\ elements[j] = [id |-> p.id, elementType |-> INFOPAGE]
        /\ \A m \in j..(k - 1) : elements[m].elementType = INFOPAGE

\* The content id starts at position k of the built set s: the test id; the
\* first test drawn for the group id, when raw set s lists the group; the
\* first element that is not a page put before it, when id is the set's.
ContentAt(id, s, k) ==
    LET elements == journalStructure.sets[s].elements
        isTest == elements[k].elementType = TEST
    IN  \/ isTest /\ elements[k].id = id
        \/ /\ isTest
           /\ Includes(configFile.sets[s].elements, id)
           /\ \E g \in DOMAIN configFile.testgroups :
                 /\ configFile.testgroups[g].id = id
                 /\ builder.testsInTestgroup[g].tests # <<>>
                 /\ builder.testsInTestgroup[g].tests[1] = elements[k]
        \/ /\ isTest
           /\ journalStructure.sets[s].id = id
           /\ \A j \in 1..(k - 1) : elements[j].elementType = INFOPAGE

\* C16: every infopage is inlined before each content of the structure that
\* one of its 'belongs' ids names, be it a test, a group or a set.
C16_InfopagesPlaced ==
    FreshBuilt =>
        \A p \in DOMAIN configFile.infopages :
            \A b \in DOMAIN configFile.infopages[p].belongs :
                \A s \in DOMAIN journalStructure.sets :
                    \A k \in DOMAIN journalStructure.sets[s].elements :
                        ContentAt(configFile.infopages[p].belongs[b], s, k) =>
                            PageBefore(journalStructure.sets[s].elements,
                                       configFile.infopages[p], k)

(***************************************************************************)
(* SpecSpeed: calculateResult of a speed test of one or two options on the *)
(* text "ab:cd:ef", for every log no longer than the options.              *)
(***************************************************************************)
MaxSpeedOptions == 2
MaxIndex == 2

\* The offsets a selection starts or ends at: none (-1), the ends of the
\* text and the ends of the two colons.
SpeedOffsets == {-1, 0, 2, 3, 5, 6, 8}

\* parseInt(option.index, 10): a number, or NaN.
SpeedIndexes ==
    {[parsable |-> FALSE, value |-> 0]} \cup [parsable : {TRUE}, value : 0..MaxIndex]

\* The schema requires 'correct' of every option.
SpeedOptions ==
    [text : {SpeedText}, hasCorrect : {TRUE}, correct : {<<":">>}, index : SpeedIndexes]

SpeedLogEntries ==
    {NotAnArray}
    \cup {e \in [isArray : {TRUE}, startIsNumber : BOOLEAN, endIsNumber : BOOLEAN,
                 start : {0}, end : {0}] : ~(e.startIsNumber /\ e.endIsNumber)}
    \cup [isArray : {TRUE}, startIsNumber : {TRUE}, endIsNumber : {TRUE},
          start : SpeedOffsets, end : SpeedOffsets]

\* The log of selected texts that goes with a log of offsets: the text
\* between the offsets, and 'false' for an entry without two numbers.
StringLog(options, log) ==
    [i \in DOMAIN log |->
        IF log[i].isArray /\ log[i].startIsNumber /\ log[i].endIsNumber
        THEN [isString |-> TRUE,
              text |-> Substring(options[i].text, log[i].start, log[i].end)]
        ELSE [isString |-> FALSE, text |-> <<>>]]

InitSpeed ==
    /\ WireIdle
    /\ JournalIdle
    /\ \E n \in 1..MaxSpeedOptions :
          /\ speedOptions \in [1..n -> SpeedOptions]
          /\ \E k \in 0..n : speedLog \in [1..k -> SpeedLogEntries]
    /\ speedResult = NotScored
    /\ stringLogResult = NotScored
    /\ LockIdle
    /\ CalcIdle
    /\ ValidateIdle
    /\ StructIdle
    /\ GenIdle

RunCalculateResult ==
    /\ ~speedResult.done
    /\ LET result == SpeedCalculateResult(speedOptions, speedLog, 0,
                                          [score |-> 0, correct |-> <<>>, wrong |-> <<>>])
       IN  speedResult' = [done |-> TRUE, score |-> result.score,
                           correct |-> result.correct, wrong |-> result.wrong]
    /\ UNCHANGED <<speedOptions, speedLog, stringLogResult, lockVars, calcVars, valVars,
                   structVars, genVars,
                   wireVars, journalVars>>

\* calculateResult of part_001 on the texts selected.
RunStringLogCalculateResult ==
    /\ ~stringLogResult.done
    /\ LET result == StringLogCalculateResult(speedOptions, StringLog(speedOptions, speedLog), 0,
                                              [score |-> 0, correct |-> <<>>, wrong |-> <<>>])
       IN  stringLogResult' = [done |-> TRUE, score |-> result.score,
                               correct |-> result.correct, wrong |-> result.wrong]
    /\ UNCHANGED <<speedOptions, speedLog, speedResult, lockVars, calcVars, valVars,
                   structVars, genVars,
                   wireVars, journalVars>>

NextSpeed ==
    \/ RunCalculateResult
    \/ RunStringLogCalculateResult

SpecSpeed == InitSpeed /\ [][NextSpeed]_vars

(***************************************************************************)
(* Properties of SpeedTest.calculateResult, under SpecSpeed.               *)
(***************************************************************************)
\* The occurrences of 'correct' in the text, left to right, each with its
\* offsets in the text.
RECURSIVE OccurencesInText(_, _, _)
OccurencesInText(text, correctOption, from) ==
    LET index == Search(Slice(text, from), correctOption) IN
    IF index = -1 THEN <<>>
    ELSE <<[start |-> from + index, end |-> from + index + Len(correctOption)]>>
         \o OccurencesInText(text, correctOption, from + index + Len(correctOption))

\* The selection covers the occurrence numbered option.index, and the text it
\* slices holds 'correct'.
CoversTarget(option, entry) ==
    LET occurences == OccurencesInText(option.text, option.correct, 0)
        target == option.index.value + 1
    IN  /\ target \in DOMAIN occurences
        /\ entry.start <= occurences[target].start
        /\ entry.end >= occurences[target].end
        /\ StringIncludes(Substring(option.text, entry.start, entry.end), option.correct)

\* C17: an entry that is scored is awarded exactly when its span covers, in
\* offsets of option.text, the occurrence of 'correct' numbered option.index
\* and the sliced text holds 'correct'; otherwise its option is wrong.
C17_SpeedAwardsTargetOccurence ==
    speedResult.done =>
        \A i \in DOMAIN speedLog :
            ~SkipsEntry(speedOptions[i], speedLog[i]) =>
                /\ Includes(speedResult.correct, i - 1)
                      <=> CoversTarget(speedOptions[i], speedLog[i])
                /\ Includes(speedResult.wrong, i - 1)
                      <=> ~CoversTarget(speedOptions[i], speedLog[i])

\* The kinds of entry that are not to be scored: not an array, a start or end
\* that is not a number, the pair [-1, -1], an option without readable index.
NotToBeScored(option, entry) ==
    \/ ~entry.isArray
    \/ ~entry.startIsNumber \/ ~entry.endIsNumber
    \/ entry.start = -1 /\ entry.end = -1
    \/ ~option.index.parsable

\* An entry with all it takes to be scored: two numbers, neither of them -1,
\* for an option with a readable index.
WellFormed(option, entry) ==
    /\ entry.isArray /\ entry.startIsNumber /\ entry.endIsNumber
    /\ entry.start # -1 /\ entry.end # -1
    /\ option.index.parsable

\* C18: an entry that is [-1, -1], not an array, not numeric, or of an option
\* without readable index puts its option in neither list and leaves the score
\* alone, and the other entries of the log are scored all the same.
C18_MalformedEntriesSkipped ==
    speedResult.done =>
        /\ \A i \in DOMAIN speedLog :
              NotToBeScored(speedOptions[i], speedLog[i]) =>
                  /\ ~Includes(speedResult.correct, i - 1)
                  /\ ~Includes(speedResult.wrong, i - 1)
        /\ \A i \in DOMAIN speedLog :
              WellFormed(speedOptions[i], speedLog[i]) =>
                  Includes(speedResult.correct, i - 1) \/ Includes(speedResult.wrong, i - 1)
        /\ speedResult.score = Len(speedResult.correct)
        /\ Len(speedResult.correct) + Len(speedResult.wrong)
              = Cardinality({i \in DOMAIN speedLog :
                                ~SkipsEntry(speedOptions[i], speedLog[i])})

\* C18's case: a log whose first entry is [-1, -1] and whose second entry is
\* awarded.
C18_Witness ==
    /\ speedResult.done
    /\ Len(speedLog) = 2
    /\ speedLog[1].isArray /\ speedLog[1].startIsNumber /\ speedLog[1].endIsNumber
    /\ speedLog[1].start = -1 /\ speedLog[1].end = -1
    /\ speedOptions[1].index.parsable
    /\ speedResult.correct = <<1>>
    /\ speedResult.score = 1

\* The shape of a result for a log of the given length and a test with the
\* given options: the score counts the correct indices, no index is in both
\* lists or twice in one, every index is below the log length, and the score
\* is at most maxScore.
ResultShape(result, options, length) ==
    /\ result.score = Len(result.correct)
    /\ Range(result.correct) \cap Range(result.wrong) = {}
    /\ Cardinality(Range(result.correct)) = Len(result.correct)
    /\ Cardinality(Range(result.wrong)) = Len(result.wrong)
    /\ \A index \in Range(result.correct) \cup Range(result.wrong) :
          0 <= index /\ index < length
    /\ result.score <= MaxScore([config |-> [options |-> options]])

\* C28: for every speed config and every log no longer than the options, what
\* calculateResult returns, in either version, has the shape of a result.
C28_ResultShape ==
    /\ speedResult.done => ResultShape(speedResult, speedOptions, Len(speedLog))
    /\ stringLogResult.done => ResultShape(stringLogResult, speedOptions, Len(speedLog))

\* C28's case: two options and a log of two entries, the first awarded and the
\* second wrong in either version.
C28_Witness ==
    /\ speedResult.done /\ stringLogResult.done
    /\ Len(speedOptions) = 2 /\ Len(speedLog) = 2
    /\ speedResult.score = 1
    /\ speedResult.correct = <<0>> /\ speedResult.wrong = <<1>>
    /\ stringLogResult.correct = <<0>> /\ stringLogResult.wrong = <<1>>

(***************************************************************************)
(* generateValidationCode (result.controller.js).  The schema and the code *)
(* are sequences of characters.  Every pass of a loop that draws a random  *)
(* number is a step; a pass that leaves 'code' as it is (a number drawn    *)
(* that the modulo rejects, a '%' at the end of the code) changes nothing  *)
(* and is no step of the model.                                            *)
(***************************************************************************)
\* const alphabet = 'ABCDEFGHIJKLMNOPQRSTUVWXYZ'
Alphabet ==
    <<"A", "B", "C", "D", "E", "F", "G", "H", "I", "J", "K", "L", "M",
      "N", "O", "P", "Q", "R", "S", "T", "U", "V", "W", "X", "Y", "Z">>

\* alphabet.toLowerCase()
LowerCase ==
    <<"a", "b", "c", "d", "e", "f", "g", "h", "i", "j", "k", "l", "m",
      "n", "o", "p", "q", "r", "s", "t", "u", "v", "w", "x", "y", "z">>

\* The characters of the numbers 0 to 9.
Digits == <<"0", "1", "2", "3", "4", "5", "6", "7", "8", "9">>

IsDigit(c) == \E n \in DOMAIN Digits : Digits[n] = c

DigitValue(c) == (CHOOSE n \in DOMAIN Digits : Digits[n] = c) - 1

\* const replaceTokens = ['[0-9]', '[A-Z]', '[a-z]']
TokenDigit == <<"[", "0", "-", "9", "]">>
TokenUpper == <<"[", "A", "-", "Z", "]">>
TokenLower == <<"[", "a", "-", "z", "]">>

\* String.prototype.replace(pattern, replacement) with a string pattern: the
\* first occurrence is replaced.
Replace(str, pattern, replacement) ==
    LET index == Search(str, pattern) IN
    IF index = -1 THEN str
    ELSE SubSeq(str, 1, index) \o replacement \o Slice(str, index + Len(pattern))

\* String.prototype.substr(start, length)
Substr(str, start, length) == SubSeq(str, start + 1, Min(start + length, Len(str)))

\* The number a string of digits stands for when '%' coerces it; NaN for any
\* other string.
IsNumeric(str) == \A i \in DOMAIN str : IsDigit(str[i])

RECURSIVE NumberOf(_, _, _)
NumberOf(str, i, n) ==
    IF i > Len(str) THEN n ELSE NumberOf(str, i + 1, 10 * n + DigitValue(str[i]))

\* The condition that ends the do-while loop, with every number taken.
EndsRerollAlways(number, modulo) == TRUE

\* line 195: the do-while loop ends when number % modulo === 0; a modulo that
\* is no number, or 0, makes the remainder NaN.
EndsReroll(number, modulo) ==
    /\ IsNumeric(modulo)
    /\ NumberOf(modulo, 1, 0) # 0
    /\ number % NumberOf(modulo, 1, 0) = 0

\* The replace token the loops are at, with '[a-z]' left out of replaceTokens.
ReplaceTokenAtNoLower(code) ==
    IF StringIncludes(code, TokenDigit) THEN TokenDigit
    ELSE IF StringIncludes(code, TokenUpper) THEN TokenUpper
    ELSE <<>>

\* lines 158-159: the replace token the loops are at, or none.
ReplaceTokenAt(code) ==
    IF StringIncludes(code, TokenDigit) THEN TokenDigit
    ELSE IF StringIncludes(code, TokenUpper) THEN TokenUpper
    ELSE IF StringIncludes(code, TokenLower) THEN TokenLower
    ELSE <<>>

\* lines 178-179: the meta token the loops are at, or none.
MetaTokenAt(code) ==
    IF StringIncludes(code, <<"%">>) THEN "%"
    ELSE IF StringIncludes(code, <<"(">>) THEN "("
    ELSE IF StringIncludes(code, <<")">>) THEN ")"
    ELSE ""

\* lines 162-163 and 173: '[0-9]' replaced by a random digit.
ReplaceDigit(number) ==
    /\ genPc = "replace"
    /\ ReplaceTokenAt(genCode) = TokenDigit
    /\ genCode' = Replace(genCode, TokenDigit, <<Digits[number + 1]>>)
    /\ UNCHANGED <<genSchema, genPc, lockVars, calcVars, valVars, structVars, speedVars,
                   wireVars, journalVars>>

\* lines 164-166 and 173: '[A-Z]' replaced by a random letter.
ReplaceUpper(index) ==
    /\ genPc = "replace"
    /\ ReplaceTokenAt(genCode) = TokenUpper
    /\ genCode' = Replace(genCode, TokenUpper, <<Alphabet[index + 1]>>)
    /\ UNCHANGED <<genSchema, genPc, lockVars, calcVars, valVars, structVars, speedVars,
                   wireVars, journalVars>>

\* lines 167-169 and 173: '[a-z]' replaced by a random lower case letter.
ReplaceLower(index) ==
    /\ genPc = "replace"
    /\ ReplaceTokenAt(genCode) = TokenLower
    /\ genCode' = Replace(genCode, TokenLower, <<LowerCase[index + 1]>>)
    /\ UNCHANGED <<genSchema, genPc, lockVars, calcVars, valVars, structVars, speedVars,
                   wireVars, journalVars>>

\* lines 158-175 left: no replace token is in the code any more.
EndReplace ==
    /\ genPc = "replace"
    /\ ReplaceTokenAt(genCode) = <<>>
    /\ genPc' = "meta"
    /\ UNCHANGED <<genSchema, genCode, lockVars, calcVars, valVars, structVars, speedVars,
                   wireVars, journalVars>>

\* lines 189-198: '%' and what follows it replaced by the number drawn, when
\* the modulo takes it.
ReplaceModulo(number) ==
    /\ genPc = "meta"
    /\ MetaTokenAt(genCode) = "%"
    /\ LET tokenIndex == Search(genCode, <<"%">>)
           modulo == Substr(genCode, tokenIndex + 1, tokenIndex + 2)
       IN  /\ tokenIndex < Len(genCode) - 1
           /\ EndsReroll(number, modulo)
           /\ genCode' = Replace(genCode, <<"%">> \o modulo, <<Digits[number + 1]>>)
    /\ UNCHANGED <<genSchema, genPc, lockVars, calcVars, valVars, structVars, speedVars,
                   wireVars, journalVars>>

\* lines 199-204: '(' and ')' removed.
RemoveBracket ==
    /\ genPc = "meta"
    /\ MetaTokenAt(genCode) \in {"(", ")"}
    /\ genCode' = Replace(genCode, <<MetaTokenAt(genCode)>>, <<>>)
    /\ UNCHANGED <<genSchema, genPc, lockVars, calcVars, valVars, structVars, speedVars,
                   wireVars, journalVars>>

\* line 209: return code
ReturnCode ==
    /\ genPc = "meta"
    /\ MetaTokenAt(genCode) = ""
    /\ genPc' = "done"
    /\ UNCHANGED <<genSchema, genCode, lockVars, calcVars, valVars, structVars, speedVars,
                   wireVars, journalVars>>

(***************************************************************************)
(* SpecGen: generateValidationCode on the schema "AA-[0-9][0-9]%2", on     *)
(* schemas put together from class tokens, brackets and other characters,  *)
(* and on schemas with a '%' or a bracket in other places.                 *)
(***************************************************************************)
MaxPieces == 2

SchemaTwoDigitsModulo ==
    <<"A", "A", "-">> \o TokenDigit \o TokenDigit \o <<"%", "2">>

SchemaLetters == <<"(">> \o TokenUpper \o TokenLower \o <<")">>

\* "%2-[0-9]": the marker and its divisor stand first, text follows.
SchemaModuloThenText == <<"%", "2", "-">> \o TokenDigit

\* "(%2)": the marker and its divisor stand in brackets.
SchemaModuloInBrackets == <<"(", "%", "2", ")">>

\* "[0-9]%": the marker stands last, without a divisor.
SchemaModuloLast == TokenDigit \o <<"%">>

\* "[(0-9]": a bracket stands inside the characters of a class token.
SchemaBracketInToken == <<"[", "(", "0", "-", "9", "]">>

\* "[[0-9]-9]": a class token stands inside the characters of another.
SchemaTokenInToken == <<"[">> \o TokenDigit \o <<"-", "9", "]">>

\* What a schema is put together from.
Pieces == {TokenDigit, TokenUpper, TokenLower, <<"(">>, <<")">>, <<"x">>, <<"-">>}

RECURSIVE Concat(_)
Concat(pieces) ==
    IF pieces = <<>> THEN <<>> ELSE Head(pieces) \o Concat(Tail(pieces))

PieceSchemas == {Concat(pieces) : pieces \in SeqsUpTo(Pieces, MaxPieces)}

Schemas ==
    {SchemaTwoDigitsModulo, SchemaLetters, SchemaModuloThenText,
     SchemaModuloInBrackets, SchemaModuloLast, SchemaBracketInToken,
     SchemaTokenInToken} \cup PieceSchemas

InitGen ==
    /\ WireIdle
    /\ JournalIdle
    /\ genSchema \in Schemas
    /\ genCode = genSchema
    /\ genPc = "replace"
    /\ LockIdle
    /\ CalcIdle
    /\ ValidateIdle
    /\ StructIdle
    /\ SpeedIdle

NextGen ==
    \/ \E number \in 0..9 : ReplaceDigit(number)
    \/ \E index \in 0..(Len(Alphabet) - 1) : ReplaceUpper(index)
    \/ \E index \in 0..(Len(Alphabet) - 1) : ReplaceLower(index)
    \/ EndReplace
    \/ \E number \in 0..9 : ReplaceModulo(number)
    \/ RemoveBracket
    \/ ReturnCode

SpecGen == InitGen /\ [][NextGen]_vars

\* Math.random() is fair: a pass of a loop that can change the code is taken
\* in the end.
SpecGenFair == SpecGen /\ WF_vars(NextGen)

(***************************************************************************)
(* Properties of generateValidationCode, under SpecGen.                    *)
(***************************************************************************)
Returned(schema) == genPc = "done" /\ genSchema = schema

IsUpper(c) == \E n \in DOMAIN Alphabet : Alphabet[n] = c

\* C20 as stated: for "AA-[0-9][0-9]%2" the code is two upper case letters, a
\* dash and exactly two digits, the number they make being even.
C20_TwoDigitsEven ==
    Returned(SchemaTwoDigitsModulo) =>
        /\ Len(genCode) = 5
        /\ IsUpper(genCode[1]) /\ IsUpper(genCode[2])
        /\ genCode[3] = "-"
        /\ IsDigit(genCode[4]) /\ IsDigit(genCode[5])
        /\ (10 * DigitValue(genCode[4]) + DigitValue(genCode[5])) % 2 = 0

\* C20 amended: for "AA-[0-9][0-9]%2" the code is the letters "AA", a dash and
\* exactly three digits: two digits for the two '[0-9]', any of 0 to 9 each,
\* and a third digit for '%2', which is even.
C20_ThreeDigitsLastEven ==
    Returned(SchemaTwoDigitsModulo) =>
        /\ Len(genCode) = 6
        /\ SubSeq(genCode, 1, 3) = <<"A", "A", "-">>
        /\ IsDigit(genCode[4]) /\ IsDigit(genCode[5]) /\ IsDigit(genCode[6])
        /\ DigitValue(genCode[6]) % 2 = 0

\* C20's case: the code returned for "AA-[0-9][0-9]%2" with an odd second
\* digit.
C20_Witness ==
    /\ Returned(SchemaTwoDigitsModulo)
    /\ Len(genCode) = 6
    /\ DigitValue(genCode[5]) % 2 = 1

IsLower(c) == \E n \in DOMAIN LowerCase : LowerCase[n] = c

\* A '%' of the schema with a divisor behind it: a digit other than 0.
ModuloWithDivisor(schema) ==
    \E i \in 1..(Len(schema) - 1) :
        schema[i] = "%" /\ IsDigit(schema[i + 1]) /\ schema[i + 1] # "0"

\* C21: for every schema with a '%' followed by a divisor, wherever the '%'
\* stands and whatever follows the divisor, generateValidationCode returns in
\* the end, under a fair random source.
C21_ModuloTerminates ==
    (genPc = "replace" /\ ModuloWithDivisor(genSchema)) ~> (genPc = "done")

\* No class token and no bracket is in the code.
NoTokens(code) ==
    /\ ~StringIncludes(code, TokenDigit)
    /\ ~StringIncludes(code, TokenUpper)
    /\ ~StringIncludes(code, TokenLower)
    /\ ~StringIncludes(code, <<"(">>)
    /\ ~StringIncludes(code, <<")">>)

StartsWith(str, prefix) ==
    Len(str) >= Len(prefix) /\ SubSeq(str, 1, Len(prefix)) = prefix

\* The schema read from left to right: a class token stands for one character
\* of its class, a bracket for nothing, any other character for itself.
RECURSIVE Resolves(_, _)
Resolves(schema, code) ==
    IF schema = <<>> THEN code = <<>>
    ELSE IF StartsWith(schema, TokenDigit)
         THEN code # <<>> /\ IsDigit(code[1])
                /\ Resolves(Slice(schema, Len(TokenDigit)), Tail(code))
    ELSE IF StartsWith(schema, TokenUpper)
         THEN code # <<>> /\ IsUpper(code[1])
                /\ Resolves(Slice(schema, Len(TokenUpper)), Tail(code))
    ELSE IF StartsWith(schema, TokenLower)
         THEN code # <<>> /\ IsLower(code[1])
                /\ Resolves(Slice(schema, Len(TokenLower)), Tail(code))
    ELSE IF schema[1] \in {"(", ")"} THEN Resolves(Tail(schema), code)
    ELSE code # <<>> /\ code[1] = schema[1] /\ Resolves(Tail(schema), Tail(code))

\* C22 as stated: for every schema the code returned has no class token and
\* no bracket, and is the schema with one character of the class for every
\* class token, the brackets deleted and every other character kept.
C22_EveryTemplateResolved ==
    genPc = "done" => NoTokens(genCode) /\ Resolves(genSchema, genCode)

\* Every '[' of the schema is the first character of a class token.
RECURSIVE BracketsOpenTokens(_)
BracketsOpenTokens(schema) ==
    IF schema = <<>> THEN TRUE
    ELSE IF \E token \in {TokenDigit, TokenUpper, TokenLower} : StartsWith(schema, token)
         THEN BracketsOpenTokens(Slice(schema, Len(TokenDigit)))
    ELSE schema[1] # "[" /\ BracketsOpenTokens(Tail(schema))

\* A schema without '%' whose '[' all open a class token.
PlainSchema(schema) ==
    ~StringIncludes(schema, <<"%">>) /\ BracketsOpenTokens(schema)

\* C22 amended: for every schema without '%' in which every '[' opens a class
\* token, the code returned has no class token and no bracket, and is the
\* schema with one character of the class for every class token, the brackets
\* deleted and every other character kept in order.
C22_PlainTemplateResolved ==
    (genPc = "done" /\ PlainSchema(genSchema)) =>
        NoTokens(genCode) /\ Resolves(genSchema, genCode)

\* C22's case: the code "Qk" returned for "([A-Z][a-z])".
C22_Witness ==
    /\ Returned(SchemaLetters)
    /\ genCode = <<"Q", "k">>

(***************************************************************************)
(* LocalStorageService.prepareJournalLogForSaving and                      *)
(* extractSavedJournalLog (local-storage.service.ts).  A Map is the list   *)
(* of its keys in insertion order with the value of every key; the object  *)
(* that is saved holds, per set, a list of {key, val} pairs.               *)
(***************************************************************************)
LogValues == {<<TRUE>>, <<FALSE>>}

\* new Map()
EmptyMap == [keys |-> <<>>, get |-> <<>>]

\* Map.prototype.set(key, val): a new key comes last, a key the map has keeps
\* its place and takes the value.
MapSet(map, key, val) ==
    [keys |-> IF Includes(map.keys, key) THEN map.keys ELSE Append(map.keys, key),
     get |-> [k \in DOMAIN map.get \cup {key} |-> IF k = key THEN val ELSE map.get[k]]]

\* lines 174-177: element.forEach((val, key) => setObj['maps'].push({key, val}))
MapPairs(map) ==
    [i \in DOMAIN map.keys |-> [key |-> map.keys[i], val |-> map.get[map.keys[i]]]]

RECURSIVE AllPairs(_, _)
AllPairs(sets, s) ==
    IF s > Len(sets) THEN <<>> ELSE MapPairs(sets[s]) \o AllPairs(sets, s + 1)

\* prepareJournalLogForSaving with one setObj made before the loop and pushed
\* for every set.
PrepareJournalLogForSavingOneSetObj(log) ==
    [sets |-> [s \in DOMAIN log.sets |-> [maps |-> AllPairs(log.sets, 1)]]]

\* lines 166-182: prepareJournalLogForSaving
PrepareJournalLogForSaving(log) ==
    [sets |-> [s \in DOMAIN log.sets |-> [maps |-> MapPairs(log.sets[s])]]]

\* lines 224-226: set['maps'].forEach(obj => protoSet.set(obj.key, obj.val))
RECURSIVE ProtoSet(_, _, _)
ProtoSet(maps, i, protoSet) ==
    IF i > Len(maps) THEN protoSet
    ELSE ProtoSet(maps, i + 1, MapSet(protoSet, maps[i].key, maps[i].val))

\* lines 219-230: extractSavedJournalLog
ExtractSavedJournalLog(proto) ==
    [sets |-> [s \in DOMAIN proto.sets |-> ProtoSet(proto.sets[s].maps, 1, EmptyMap)]]

(***************************************************************************)
(* SpecWire: every journal log of at most MaxSets sets over the test ids   *)
(* is prepared for saving and extracted again.                             *)
(***************************************************************************)
\* The maps of a set: some of the test ids as keys, in any insertion order.
LogMaps ==
    {[keys |-> keys, get |-> get] :
        keys \in {k \in SeqsUpTo(TestIds, Cardinality(TestIds)) :
                    \A i, j \in DOMAIN k : i # j => k[i] # k[j]},
        get \in UNION {[ids -> LogValues] : ids \in SUBSET TestIds}}

InitWire ==
    /\ \E sets \in SeqsUpTo({m \in LogMaps : DOMAIN m.get = Range(m.keys)}, MaxSets) :
          journalLog = [sets |-> sets]
    /\ protoObj = NotConverted
    /\ extractedLog = NotConverted
    /\ JournalIdle
    /\ LockIdle
    /\ CalcIdle
    /\ ValidateIdle
    /\ StructIdle
    /\ SpeedIdle
    /\ GenIdle

\* JournalService.saveJournalLog: the log is prepared for saving.
PrepareLog ==
    /\ ~protoObj.done
    /\ protoObj' = [done |-> TRUE, sets |-> PrepareJournalLogForSaving(journalLog).sets]
    /\ UNCHANGED <<journalLog, extractedLog, journalVars, lockVars, calcVars, valVars,
                   structVars, speedVars, genVars>>

\* JournalService.loadJournalLog: the saved object is extracted.
ExtractLog ==
    /\ protoObj.done
    /\ ~extractedLog.done
    /\ extractedLog' = [done |-> TRUE, sets |-> ExtractSavedJournalLog(protoObj).sets]
    /\ UNCHANGED <<journalLog, protoObj, journalVars, lockVars, calcVars, valVars,
                   structVars, speedVars, genVars>>

NextWire ==
    \/ PrepareLog
    \/ ExtractLog

SpecWire == InitWire /\ [][NextWire]_vars

\* C23: the log extracted from the prepared form of a journal log has as many
\* sets, in the same order, and in every set the same keys with the same
\* values: no entry is lost, added or moved to another set.
C23_LogRoundTrip ==
    extractedLog.done =>
        /\ Len(extractedLog.sets) = Len(journalLog.sets)
        /\ \A s \in DOMAIN journalLog.sets :
              /\ Range(extractedLog.sets[s].keys) = Range(journalLog.sets[s].keys)
              /\ DOMAIN extractedLog.sets[s].get = DOMAIN journalLog.sets[s].get
              /\ \A key \in DOMAIN journalLog.sets[s].get :
                    extractedLog.sets[s].get[key] = journalLog.sets[s].get[key]

\* C23's case: a log of two sets, the first with the keys 2 and 1 in that
\* order and different values, the second with key 1 alone, has come back.
C23_Witness ==
    /\ extractedLog.done
    /\ Len(journalLog.sets) = 2
    /\ journalLog.sets[1].keys = <<2, 1>>
    /\ journalLog.sets[1].get[1] # journalLog.sets[1].get[2]
    /\ journalLog.sets[2].keys = <<1>>
    /\ extractedLog.sets[2].keys = <<1>>
    /\ Len(protoObj.sets[1].maps) = 2

(***************************************************************************)
(* saveLog and saveStructure (journal.controller.js) on db.Journal, as     *)
(* JournalService.saveJournal issues them: both at once.  updateOne with   *)
(* upsert: true changes the first document of the pin in one step; with no *)
(* document of the pin it inserts one, and the store, which has no unique  *)
(* index on associatedPin, does not make the look-up and the insertion one *)
(* step.                                                                   *)
(***************************************************************************)
\* A field the document does not have.
Absent == "(absent)"

\* What saveJournal saves, and what a journal saved earlier holds.
NewLog == "new log"
NewStructure == "new structure"
OldLog == "old log"
OldStructure == "old structure"

\* db.Journal.findOne({associatedPin}): the index of the first document of
\* the pin, 0 for null.
FindOne(collection, pin) ==
    IF \E i \in DOMAIN collection : collection[i].associatedPin = pin
    THEN CHOOSE i \in DOMAIN collection :
            /\ collection[i].associatedPin = pin
            /\ \A j \in 1..(i - 1) : collection[j].associatedPin # pin
    ELSE 0

\* The update {log: ...} or {structure: ...} applied to a document.
SetField(doc, field, value) ==
    IF field = "log" THEN [doc EXCEPT !.log = value] ELSE [doc EXCEPT !.structure = value]

\* The document an upsert inserts: the filter's pin and the field of the
\* update.
Inserted(pin, field, value) ==
    SetField([associatedPin |-> pin, log |-> Absent, structure |-> Absent], field, value)

\* updateOne({associatedPin: pin}, {<field>: value}, {upsert: true}) arriving
\* at the store: the first document of the pin is updated, or none is found.
UpdateOne(collection, pin, field, value) ==
    LET i == FindOne(collection, pin) IN
    IF i # 0
    THEN [matched |-> TRUE, collection |-> [collection EXCEPT ![i] = SetField(@, field, value)]]
    ELSE [matched |-> FALSE, collection |-> collection]

\* journal.service.ts lines 164-168: forkJoin subscribes to both requests.
SaveJournal(pin) ==
    /\ saves[pin] = [log |-> "idle", structure |-> "idle"]
    /\ saves' = [saves EXCEPT ![pin] = [log |-> "sent", structure |-> "sent"]]
    /\ UNCHANGED <<journals, wireVars, lockVars, calcVars, valVars, structVars, speedVars,
                   genVars>>

\* journal.controller.js lines 47-60: saveLog's updateOne reaches the store.
SaveLog(pin) ==
    /\ saves[pin].log = "sent"
    /\ LET result == UpdateOne(journals, pin, "log", NewLog)
       IN  /\ journals' = result.collection
           /\ saves' = [saves EXCEPT ![pin].log = IF result.matched THEN "done" ELSE "insert"]
    /\ UNCHANGED <<wireVars, lockVars, calcVars, valVars, structVars, speedVars, genVars>>

\* saveLog's upsert, having found no document, inserts its own.
SaveLogInsert(pin) ==
    /\ saves[pin].log = "insert"
    /\ journals' = Append(journals, Inserted(pin, "log", NewLog))
    /\ saves' = [saves EXCEPT ![pin].log = "done"]
    /\ UNCHANGED <<wireVars, lockVars, calcVars, valVars, structVars, speedVars, genVars>>

\* journal.controller.js lines 63-76: saveStructure's updateOne reaches the
\* store.
SaveStructure(pin) ==
    /\ saves[pin].structure = "sent"
    /\ LET result == UpdateOne(journals, pin, "structure", NewStructure)
       IN  /\ journals' = result.collection
           /\ saves' = [saves EXCEPT ![pin].structure =
                            IF result.matched THEN "done" ELSE "insert"]
    /\ UNCHANGED <<wireVars, lockVars, calcVars, valVars, structVars, speedVars, genVars>>

\* saveStructure's upsert, having found no document, inserts its own.
SaveStructureInsert(pin) ==
    /\ saves[pin].structure = "insert"
    /\ journals' = Append(journals, Inserted(pin, "structure", NewStructure))
    /\ saves' = [saves EXCEPT ![pin].structure = "done"]
    /\ UNCHANGED <<wireVars, lockVars, calcVars, valVars, structVars, speedVars, genVars>>

(***************************************************************************)
(* SpecJournal: saveJournal for pins with and without a journal saved      *)
(* earlier.                                                                *)
(***************************************************************************)
RECURSIVE SavedEarlier(_, _)
SavedEarlier(pins, has) ==
    IF pins = {} THEN <<>>
    ELSE LET pin == CHOOSE p \in pins : \A q \in pins : p <= q IN
         (IF has[pin]
          THEN <<[associatedPin |-> pin, log |-> OldLog, structure |-> OldStructure]>>
          ELSE <<>>)
         \o SavedEarlier(pins \ {pin}, has)

InitJournal ==
    /\ \E has \in [Pins -> BOOLEAN] : journals = SavedEarlier(Pins, has)
    /\ saves = [pin \in Pins |-> [log |-> "idle", structure |-> "idle"]]
    /\ WireIdle
    /\ LockIdle
    /\ CalcIdle
    /\ ValidateIdle
    /\ StructIdle
    /\ SpeedIdle
    /\ GenIdle

NextJournal ==
    \/ \E pin \in Pins : SaveJournal(pin)
    \/ \E pin \in Pins : SaveLog(pin)
    \/ \E pin \in Pins : SaveLogInsert(pin)
    \/ \E pin \in Pins : SaveStructure(pin)
    \/ \E pin \in Pins : SaveStructureInsert(pin)

SpecJournal == InitJournal /\ [][NextJournal]_vars

\* Both requests of the pin's saveJournal have been answered.
BothSaved(pin) == saves[pin] = [log |-> "done", structure |-> "done"]

\* C26: no step of saveLog changes a stored structure and no step of
\* saveStructure a stored log, and once both requests of a pin have been
\* answered, in whichever order, the journal that is loaded for the pin holds
\* the log and the structure that were saved.
C26_SavesCommute ==
    [][/\ \A pin \in Pins, i \in DOMAIN journals :
            /\ saves'[pin].log # saves[pin].log =>
                  journals'[i].structure = journals[i].structure
            /\ saves'[pin].structure # saves[pin].structure =>
                  journals'[i].log = journals[i].log
       /\ \A pin \in Pins :
            BothSaved(pin)' =>
                /\ FindOne(journals', pin) # 0
                /\ journals'[FindOne(journals', pin)].log = NewLog
                /\ journals'[FindOne(journals', pin)].structure = NewStructure]_vars

====
